---- MODULE Spec2Model ----
(***************************************************************************)
(* dmcp: the local installation state engine.  The on-disk state is the    *)
(* per-scope index.json, the per-server install directories with their     *)
(* manifest.json, and the temporary index file of the elevated-copy path.  *)
(* Every library entry point (install, uninstall, connect,                 *)
(* set_config_value, list_servers, get_server, get_manifest_path) is one   *)
(* action; an action records what it was called with (call), what it       *)
(* returned (ret, out) and the file operations it issued (fx); log keeps   *)
(* the mutating calls that have succeeded so far, in order.  sources holds *)
(* the per-scope sources.list files of the registry lookup, and procs the  *)
(* position of each of two command-line processes that run concurrently;   *)
(* staging tells whether the directory install_stdio clones into exists.   *)
(***************************************************************************)
EXTENDS Integers, Sequences, FiniteSets, TLC

VARIABLES index, manifest, dirs, temp, clock, edits, call, ret, fx, out, log,
          sources, procs, staging

vars == <<index, manifest, dirs, temp, clock, edits, call, ret, fx, out, log,
          sources, procs, staging>>

\* ------------------------------------------------------------------ bounds

\* Number of mutating calls (each reads the clock once) explored in one run.
MaxClock == 2

\* Number of calls in one run of connects and uninstalls of generated ids.
MaxCalls == 4

\* Number of edits made to the files from outside dmcp explored in one run.
MaxEdits == 1

\* ------------------------------------------------------------------ values

\* Option<T>
None == <<>>
Some(x) == <<x>>
IsSome(o) == o # None
UnwrapOr(o, d) == IF o = None THEN d ELSE o[1]

Scopes == {"user", "system"}

\* A server id is a string: a sequence of characters.  "P" stands for the
\* fixed prefix "com.user.connected.server".
IdA == <<"a">>
IdB == <<"b">>
NamedIds == {IdA, IdB}

\* Byte order of the characters used in ids ('+' < digits < 'a' < 'b' < 'c...').
CharRank(c) ==
    CASE c = "+" -> 0
      [] c = "0" -> 1
      [] c = "1" -> 2
      [] c = "2" -> 3
      [] c = "3" -> 4
      [] c = "4" -> 5
      [] c = "5" -> 6
      [] c = "6" -> 7
      [] c = "7" -> 8
      [] c = "8" -> 9
      [] c = "9" -> 10
      [] c = "a" -> 20
      [] c = "b" -> 21
      [] c = "P" -> 22
      [] OTHER -> 30

\* String::cmp(a, b) = Less
RECURSIVE StrLess(_, _)
StrLess(x, y) ==
    IF y = <<>> THEN FALSE
    ELSE IF x = <<>> THEN TRUE
    ELSE IF CharRank(Head(x)) # CharRank(Head(y))
         THEN CharRank(Head(x)) < CharRank(Head(y))
    ELSE StrLess(Tail(x), Tail(y))

\* paths.<scope>_install_dir().join(id)
\* InstallDirOf with the user scope's directory taken for every scope.
InstallDirOfUserBase(scope, id) == [scope |-> "user", id |-> id]

InstallDirOf(scope, id) == [scope |-> scope, id |-> id]

\* install_dir.join("manifest.json"): one manifest file per install directory
ManifestPathOf(dir) == dir

\* File contents.
AbsentFile == [kind |-> "absent"]
CorruptFile == [kind |-> "corrupt"]

\* r#"{"servers":{},"version":"1.0"}"#
DefaultIndex ==
    [kind |-> "json", servers |-> <<>>, version |-> Some("1.0"), updated |-> None]

KnownTransports == {"stdio", "sse", "websocket"}

\* A transport descriptor: its "type" tag and the field its variant requires
\* (command, url or wsUrl).
Transport(type, arg) == [type |-> type, arg |-> arg]

Urls == {" ", "wss://h/x", "https://h/y", " wss://h/x"}

\* str::trim
Trim(url) ==
    IF url = " " THEN ""
    ELSE IF url = " wss://h/x" THEN "wss://h/x"
    ELSE IF url = " https://r1/i.json " THEN "https://r1/i.json"
    ELSE url

\* url.starts_with("wss://") || url.starts_with("ws://")
IsWebSocketUrl(url) == url \in {"wss://h/x", "ws://h/x"}

ConfigC1 == [k \in {"k1"} |-> "v1"]
EmptyConfig == [k \in {} |-> "v1"]

\* Display strings (name, summary, version) are strings like the ids.
N1 == <<"n1">>
N2 == <<"n2">>
V1 == <<"1.0">>
V2 == <<"2.0">>
S1 == <<"s1">>

\* Registry descriptors handed to install (server_override) or fetched.
\* extra: a field the typed Manifest does not know, absent unless stated.
Descriptor(i, n, s, v, t, c) ==
    [id |-> i, name |-> n, summary |-> s, version |-> v, transports |-> t,
     config |-> c, extra |-> None]

Descriptors ==
    { Descriptor(Some(IdA), Some(N1), Some(S1), Some(V1), Some(<<Transport("sse", Some("https://h/y"))>>), None),
      [Descriptor(Some(IdB), Some(N2), Some(S1), Some(V2), Some(<<Transport("stdio", Some("cmd"))>>), Some(ConfigC1))
          EXCEPT !.extra = Some("x")],
      Descriptor(None, None, None, None, Some(<<Transport("websocket", Some("wss://h/x")),
                   Transport("sse", Some("https://h/y"))>>), None),
      Descriptor(Some(IdA), Some(N2), Some(S1), Some(V2), None, None),
      Descriptor(Some(IdA), Some(N2), Some(S1), Some(V2), Some(<<>>), None),
      Descriptor(Some(IdB), Some(N1), Some(S1), Some(V1), Some(<<Transport("bogus", None)>>), None),
      Descriptor(Some(IdA), Some(N1), Some(S1), Some(V1), Some(<<Transport("sse", None)>>), None) }

\* Result<T, E>
Ok(v) == [ok |-> TRUE, v |-> v]
Err(e) == [ok |-> FALSE, err |-> e]

\* ---------------------------------------------------------------- models.rs

\* serde_json::from_str::<Index>(&s).is_ok()
IndexParses(f) == f.kind = "json"

\* serde_json::from_str::<Manifest>(&s).is_ok(): every transport must be one
\* of the tagged variants, with its required field.
ManifestParses(m) ==
    /\ m.kind = "json"
    /\ \/ m.transports = None
       \/ \A i \in 1..Len(m.transports[1]) :
             /\ m.transports[1][i].type \in KnownTransports
             /\ m.transports[1][i].arg # None

\* The Manifest that serde_json::from_str gives for the file m: fields the
\* struct does not know are dropped, a missing config is the empty map.
TypedManifest(m) ==
    [m EXCEPT !.extra = None, !.config = Some(UnwrapOr(m.config, EmptyConfig))]

\* std::fs::read_to_string(path) of a manifest path
ReadManifest(path) ==
    IF path \in DOMAIN manifest THEN manifest[path] ELSE AbsentFile

\* ------------------------------------------------------------- discovery.rs

\* transport_type of the first transport, or "unknown"
TransportTypeOf(m) ==
    IF m.transports = None \/ m.transports[1] = <<>>
    THEN "unknown"
    ELSE m.transports[1][1].type

\* The ServerInfo pushed for index key id with manifest m in scope.
ServerInfoOf(id, m, scope) ==
    [id |-> UnwrapOr(m.id, id),
     name |-> UnwrapOr(m.name, <<"Unknown">>),
     version |-> UnwrapOr(m.version, <<"?">>),
     transport_type |-> TransportTypeOf(m),
     scope |-> scope]

\* LoadEntries with the loop left at the first manifest that does not load.
RECURSIVE LoadEntriesStopsAtBad(_, _, _)
LoadEntriesStopsAtBad(order, servers, scope) ==
    IF order = <<>> THEN <<>>
    ELSE LET id == Head(order)
             m == ReadManifest(servers[id].location)
         IN  IF ManifestParses(m)
             THEN <<ServerInfoOf(id, m, scope)>>
                      \o LoadEntriesStopsAtBad(Tail(order), servers, scope)
             ELSE <<>>

\* The loop over index.servers, in the iteration order `order` of the map.
RECURSIVE LoadEntries(_, _, _)
LoadEntries(order, servers, scope) ==
    IF order = <<>> THEN <<>>
    ELSE LET id == Head(order)
             m == ReadManifest(servers[id].location)
             rest == LoadEntries(Tail(order), servers, scope)
         IN  IF ManifestParses(m)
             THEN <<ServerInfoOf(id, m, scope)>> \o rest
             ELSE rest

\* LoadFromScope with an unreadable index reported as a load failure.
LoadFromScopeMissingIsFailure(scope, order) ==
    IF ~IndexParses(index[scope]) THEN None
    ELSE Some(LoadEntries(order, index[scope].servers, scope))

\* load_from_scope: None when the index is unparsable, Some(vec![]) when it
\* cannot be read, else the entries whose manifest loads.
LoadFromScope(scope, order) ==
    IF index[scope].kind = "absent" THEN Some(<<>>)
    ELSE IF ~IndexParses(index[scope]) THEN None
    ELSE Some(LoadEntries(order, index[scope].servers, scope))

\* seen.insert(s.id, s) for every s of the list
RECURSIVE InsertAll(_, _)
InsertAll(seen, list) ==
    IF list = <<>> THEN seen
    ELSE LET s == Head(list)
         IN  InsertAll([i \in DOMAIN seen \cup {s.id} |->
                           IF i = s.id THEN s ELSE seen[i]], Tail(list))

\* OrInsertAll with insert in place of entry().or_insert().
OrInsertAllOverwrites(seen, list) == InsertAll(seen, list)

\* seen.entry(s.id).or_insert(s) for every s of the list
RECURSIVE OrInsertAll(_, _)
OrInsertAll(seen, list) ==
    IF list = <<>> THEN seen
    ELSE LET s == Head(list)
         IN  OrInsertAll([i \in DOMAIN seen \cup {s.id} |->
                             IF i \in DOMAIN seen THEN seen[i] ELSE s], Tail(list))

\* SortById with the comparison reversed.
RECURSIVE SortByIdDescending(_)
SortByIdDescending(seen) ==
    IF DOMAIN seen = {} THEN <<>>
    ELSE LET greatest == CHOOSE i \in DOMAIN seen :
                             \A j \in DOMAIN seen : ~StrLess(i, j)
         IN  <<seen[greatest]>>
                \o SortByIdDescending([j \in DOMAIN seen \ {greatest} |-> seen[j]])

\* result.sort_by(|a, b| a.id.cmp(&b.id)) of the values of seen
RECURSIVE SortById(_)
SortById(seen) ==
    IF DOMAIN seen = {} THEN <<>>
    ELSE LET least == CHOOSE i \in DOMAIN seen :
                          \A j \in DOMAIN seen : ~StrLess(j, i)
         IN  <<seen[least]>> \o SortById([j \in DOMAIN seen \ {least} |-> seen[j]])

\* ListServersOf with a failed user scope ending the listing.
ListServersOfAbortsOnFailure(user, system, orderU, orderS) ==
    LET loadedU == IF user THEN LoadFromScope("user", orderU) ELSE Some(<<>>)
        seenU == IF IsSome(loadedU) THEN InsertAll(<<>>, loadedU[1]) ELSE <<>>
        loadedS == IF system /\ IsSome(loadedU)
                   THEN LoadFromScope("system", orderS) ELSE Some(<<>>)
        seenS == IF IsSome(loadedS) THEN OrInsertAll(seenU, loadedS[1]) ELSE seenU
    IN  [list |-> SortById(seenS),
         returnedNone |-> {s \in Scopes :
                             \/ s = "user" /\ loadedU = None
                             \/ s = "system" /\ loadedS = None}]

\* list_servers(paths, user, system, debug) with the two map iteration orders.
ListServersOf(user, system, orderU, orderS) ==
    LET loadedU == IF user THEN LoadFromScope("user", orderU) ELSE Some(<<>>)
        seenU == IF IsSome(loadedU) THEN InsertAll(<<>>, loadedU[1]) ELSE <<>>
        loadedS == IF system THEN LoadFromScope("system", orderS) ELSE Some(<<>>)
        seenS == IF IsSome(loadedS) THEN OrInsertAll(seenU, loadedS[1]) ELSE seenU
    IN  [list |-> SortById(seenS),
         returnedNone |-> {s \in Scopes :
                             \/ s = "user" /\ loadedU = None
                             \/ s = "system" /\ loadedS = None}]

\* The iteration orders a HashMap with the keys of the scope's index can have.
KeysOf(scope) ==
    IF IndexParses(index[scope]) THEN DOMAIN index[scope].servers ELSE {}

Orders(S) ==
    {q \in [1..Cardinality(S) -> S] : \A i, j \in 1..Cardinality(S) : q[i] = q[j] => i = j}

\* load_server_from_scope(base, id, scope)
LoadServerFromScope(scope, id) ==
    IF ~IndexParses(index[scope]) THEN None
    ELSE IF id \notin DOMAIN index[scope].servers THEN None
    ELSE LET path == index[scope].servers[id].location
             m == ReadManifest(path)
         IN  IF ManifestParses(m)
             THEN Some([manifest |-> TypedManifest(m), scope |-> scope, path |-> path])
             ELSE None

\* GetServerOf with the system scope looked up first.
GetServerOfSystemFirst(id) ==
    LET u == LoadServerFromScope("user", id)
        s == LoadServerFromScope("system", id)
    IN  IF IsSome(s) THEN Some([manifest |-> s[1].manifest, scope |-> s[1].scope])
        ELSE IF IsSome(u) THEN Some([manifest |-> u[1].manifest, scope |-> u[1].scope])
        ELSE None

\* get_server(paths, id)
GetServerOf(id) ==
    LET u == LoadServerFromScope("user", id)
        s == LoadServerFromScope("system", id)
    IN  IF IsSome(u) THEN Some([manifest |-> u[1].manifest, scope |-> u[1].scope])
        ELSE IF IsSome(s) THEN Some([manifest |-> s[1].manifest, scope |-> s[1].scope])
        ELSE None

\* get_manifest_path(paths, id)
GetManifestPathOf(id) ==
    LET u == LoadServerFromScope("user", id)
        s == LoadServerFromScope("system", id)
    IN  IF IsSome(u) THEN Some(u[1].path)
        ELSE IF IsSome(s) THEN Some(s[1].path)
        ELSE None

\* GetUninstallInfoOf with the system scope looked up first.
GetUninstallInfoOfSystemFirst(id) ==
    LET u == LoadServerFromScope("user", id)
        s == LoadServerFromScope("system", id)
        Info(r) == [manifest_path |-> r.path, install_dir |-> r.path, scope |-> r.scope]
    IN  IF IsSome(s) THEN Some(Info(s[1]))
        ELSE IF IsSome(u) THEN Some(Info(u[1]))
        ELSE None

\* get_uninstall_info(paths, id): (manifest_path, install_dir, scope) of the
\* first scope, user before system, whose lookup of id succeeds.
GetUninstallInfoOf(id) ==
    LET u == LoadServerFromScope("user", id)
        s == LoadServerFromScope("system", id)
        Info(r) == [manifest_path |-> r.path, install_dir |-> r.path, scope |-> r.scope]
    IN  IF IsSome(u) THEN Some(Info(u[1]))
        ELSE IF IsSome(s) THEN Some(Info(s[1]))
        ELSE None

\* --------------------------------------------------------------- install.rs

\* One file operation issued by a call: by is "self" for the process's own
\* std::fs call and "pkexec" for the elevated child.
Fx(op, file, scope, id, by) ==
    [op |-> op, file |-> file, scope |-> scope, id |-> id, by |-> by]

\* ManifestWriteFx with the three-way commit path of the index applied to it.
ManifestWriteFxViaCopy(scope, id, elev) ==
    IF scope = "system" /\ ~elev
    THEN <<Fx("write", "temp", scope, None, "self"),
           Fx("write", "manifest", scope, id, "pkexec"),
           Fx("remove", "temp", scope, None, "self")>>
    ELSE <<Fx("write", "manifest", scope, id, "self")>>

\* std::fs::write(&manifest_path, output): the manifest is written by the
\* process itself, whatever the scope and the privilege.
ManifestWriteFx(scope, id, elev) ==
    <<Fx("write", "manifest", scope, id, "self")>>

\* PutServer with the new entry as the only one of the map.
PutServerAlone(servers, id, path) ==
    [k \in {id} |-> [location |-> path]]

\* index["servers"][id] = {"location": manifest_path}
PutServer(servers, id, path) ==
    [k \in DOMAIN servers \cup {id} |->
        IF k = id THEN [location |-> path] ELSE servers[k]]

\* RemoveServer with the entry left in the map.
RemoveServerKeepsEntry(servers, id) == servers

\* servers.remove(id)
RemoveServer(servers, id) ==
    [k \in DOMAIN servers \ {id} |-> servers[k]]

\* WriteIndex with the direct write taken for every scope and privilege.
WriteIndexAlwaysDirect(idx, tmp, output, scope, elev, fault) ==
    IF fault = "write_index"
    THEN [ret |-> "WriteIndex", file |-> idx, temp |-> tmp, fx |-> <<>>]
    ELSE [ret |-> "Ok", file |-> output, temp |-> tmp,
          fx |-> <<Fx("write", "index", scope, None, "self")>>]

\* WriteIndex with the exit status of the elevated copy not looked at.
WriteIndexIgnoresStatus(idx, tmp, output, scope, elev, fault) ==
    IF scope = "system" /\ ~elev /\ fault \notin {"write_temp", "pkexec_spawn"}
    THEN [ret |-> "Ok",
          file |-> IF fault = "pkexec_nonzero" THEN idx ELSE output,
          temp |-> None,
          fx |-> <<Fx("write", "temp", scope, None, "self"),
                   Fx(IF fault = "pkexec_nonzero" THEN "cp_failed" ELSE "write",
                      "index", scope, None, "pkexec"),
                   Fx("remove", "temp", scope, None, "self")>>]
    ELSE IF fault \in {"write_index", "write_temp"}
    THEN [ret |-> "WriteIndex", file |-> idx, temp |-> tmp, fx |-> <<>>]
    ELSE IF fault = "pkexec_spawn"
    THEN [ret |-> "WriteIndex", file |-> idx, temp |-> Some(output),
          fx |-> <<Fx("write", "temp", scope, None, "self")>>]
    ELSE [ret |-> "Ok", file |-> output, temp |-> tmp,
          fx |-> <<Fx("write", "index", scope, None, "self")>>]

\* The three-way write of `output` to the index of `scope`, as the tail of
\* update_index_add and update_index_remove codes it.  idx: the file now.
WriteIndex(idx, tmp, output, scope, elev, fault) ==
    IF scope = "system" /\ elev
    THEN IF fault = "write_index"
         THEN [ret |-> "WriteIndex", file |-> idx, temp |-> tmp, fx |-> <<>>]
         ELSE [ret |-> "Ok", file |-> output, temp |-> tmp,
               fx |-> <<Fx("write", "index", scope, None, "self")>>]
    ELSE IF scope = "system"
    THEN IF fault = "write_temp"
         THEN [ret |-> "WriteIndex", file |-> idx, temp |-> tmp, fx |-> <<>>]
         ELSE IF fault = "pkexec_spawn"
         THEN [ret |-> "WriteIndex", file |-> idx, temp |-> Some(output),
               fx |-> <<Fx("write", "temp", scope, None, "self")>>]
         ELSE IF fault = "pkexec_nonzero"
         THEN [ret |-> "WriteIndex", file |-> idx, temp |-> None,
               fx |-> <<Fx("write", "temp", scope, None, "self"),
                        Fx("cp_failed", "index", scope, None, "pkexec"),
                        Fx("remove", "temp", scope, None, "self")>>]
         ELSE [ret |-> "Ok", file |-> output, temp |-> None,
               fx |-> <<Fx("write", "temp", scope, None, "self"),
                        Fx("write", "index", scope, None, "pkexec"),
                        Fx("remove", "temp", scope, None, "self")>>]
    ELSE IF fault = "write_index"
         THEN [ret |-> "WriteIndex", file |-> idx, temp |-> tmp, fx |-> <<>>]
         ELSE [ret |-> "Ok", file |-> output, temp |-> tmp,
               fx |-> <<Fx("write", "index", scope, None, "self")>>]

\* UpdateIndexAdd with the index rebuilt from the typed Index, which has the
\* servers map alone.
UpdateIndexAddTyped(idx, tmp, id, path, scope, elev, fault, now) ==
    LET content == IF idx.kind = "absent" THEN DefaultIndex ELSE idx
    IN  IF content.kind # "json"
        THEN [ret |-> "ParseIndex", file |-> idx, temp |-> tmp, fx |-> <<>>]
        ELSE WriteIndex(idx, tmp,
                        [kind |-> "json",
                         servers |-> PutServer(content.servers, id, path),
                         version |-> None,
                         updated |-> Some(now)],
                        scope, elev, fault)

\* UpdateIndexAdd with a key that is already in the map refused.
UpdateIndexAddRejectsExisting(idx, tmp, id, path, scope, elev, fault, now) ==
    LET content == IF idx.kind = "absent" THEN DefaultIndex ELSE idx
    IN  IF content.kind # "json"
        THEN [ret |-> "ParseIndex", file |-> idx, temp |-> tmp, fx |-> <<>>]
        ELSE IF id \in DOMAIN content.servers
        THEN [ret |-> "AlreadyInstalled", file |-> idx, temp |-> tmp, fx |-> <<>>]
        ELSE WriteIndex(idx, tmp,
                        [content EXCEPT !.servers = PutServer(content.servers, id, path),
                                        !.updated = Some(now)],
                        scope, elev, fault)

\* update_index_add(paths, id, manifest_path, scope)
UpdateIndexAdd(idx, tmp, id, path, scope, elev, fault, now) ==
    LET content == IF idx.kind = "absent" THEN DefaultIndex ELSE idx
    IN  IF content.kind # "json"
        THEN [ret |-> "ParseIndex", file |-> idx, temp |-> tmp, fx |-> <<>>]
        ELSE WriteIndex(idx, tmp,
                        [content EXCEPT !.servers = PutServer(content.servers, id, path),
                                        !.updated = Some(now)],
                        scope, elev, fault)

\* update_index_remove(index_path, id, scope)
UpdateIndexRemove(idx, tmp, id, scope, elev, fault, now) ==
    IF idx.kind = "absent"
    THEN [ret |-> "ReadIndex", file |-> idx, temp |-> tmp, fx |-> <<>>]
    ELSE IF idx.kind # "json"
    THEN [ret |-> "ParseIndex", file |-> idx, temp |-> tmp, fx |-> <<>>]
    ELSE WriteIndex(idx, tmp,
                    [idx EXCEPT !.servers = RemoveServer(idx.servers, id),
                                !.updated = Some(now)],
                    scope, elev, fault)

\* BuildManifest with the descriptor's config taken as it is.
BuildManifestKeepsConfig(server, dir) ==
    [kind |-> "json",
     id |-> server.id,
     name |-> server.name,
     summary |-> server.summary,
     version |-> server.version,
     transports |-> server.transports,
     config |-> server.config,
     extra |-> server.extra,
     installDir |-> Some(dir)]

\* The manifest install builds from the descriptor.
BuildManifest(server, dir) ==
    [kind |-> "json",
     id |-> server.id,
     name |-> server.name,
     summary |-> server.summary,
     version |-> server.version,
     transports |-> server.transports,
     config |-> IF server.config = None THEN Some(EmptyConfig) ELSE server.config,
     extra |-> server.extra,
     installDir |-> Some(dir)]

\* What a call leaves behind: the files, its return value, its operations.
Outcome(r, idx, man, ds, tmp, f) ==
    [ret |-> r, index |-> idx, manifest |-> man, dirs |-> ds, temp |-> tmp, fx |-> f]

\* std::fs::write(manifest_path, output)
PutManifest(path, m) ==
    [p \in DOMAIN manifest \cup {path} |-> IF p = path THEN m ELSE manifest[p]]

\* The mutually exclusive failures of the external steps of one call.
InstallFaults ==
    {"none", "create_dir", "install_stdio_nosource", "install_stdio_invalid",
     "install_stdio_git", "install_stdio_copy", "write_manifest",
     "write_index", "write_temp", "pkexec_spawn", "pkexec_nonzero"}

\* The failures inside install_stdio: the descriptor has no source url, the
\* clone fails, the source path is not in the clone, the copy fails.
StdioFaults ==
    {"install_stdio_nosource", "install_stdio_invalid", "install_stdio_git",
     "install_stdio_copy"}

\* The step a fault names is one the call reaches on its path.
IndexFaultApplies(fault, scope, elev) ==
    \/ fault = "write_index" /\ (scope = "user" \/ elev)
    \/ fault \in {"write_temp", "pkexec_spawn", "pkexec_nonzero"}
          /\ scope = "system" /\ ~elev

InstallFaultApplies(fault, scope, elev, server) ==
    \/ fault = "none"
    \/ /\ server.ok
       /\ \/ fault \in {"create_dir", "write_manifest"}
          \/ IndexFaultApplies(fault, scope, elev)
          \/ /\ fault \in StdioFaults
             /\ server.v.transports # None
             /\ server.v.transports[1] # <<>>
             /\ server.v.transports[1][1].type = "stdio"

\* install_stdio(server, install_dir), as far as the staging directory
\* temp_dir()/dmcp-clone-<pid> goes: whether it exists when install returns.
\* install_stdio runs when the descriptor's first transport is stdio and the
\* install directory was created; it clears and creates the staging
\* directory once the source url is read, and removes it only on the path
\* that returns Ok.
StagingAfterInstall(server, fault) ==
    LET transports == IF server.ok THEN server.v.transports ELSE None
        first == IF transports = None \/ transports[1] = <<>>
                 THEN "" ELSE transports[1][1].type
    IN  IF ~server.ok \/ fault = "create_dir" \/ first # "stdio" THEN staging
        ELSE IF fault = "install_stdio_nosource" THEN staging
        ELSE IF fault \in {"install_stdio_git", "install_stdio_invalid",
                           "install_stdio_copy"}
        THEN TRUE
        ELSE FALSE

\* InstallOf with the index updated although the manifest write failed.
InstallOfContinuesAfterFailure(id, scope, elev, server, fault, now) ==
    LET dir == InstallDirOf(scope, id)
        path == ManifestPathOf(dir)
        fxDir == <<Fx("create_dir", "dir", scope, id, "self")>>
        withDir == dirs \cup {dir}
        transports == IF server.ok THEN server.v.transports ELSE None
        first == IF transports = None \/ transports[1] = <<>>
                 THEN "" ELSE transports[1][1].type
        fxMan == fxDir \o ManifestWriteFx(scope, id, elev)
        written == PutManifest(path, BuildManifest(server.v, dir))
        added == UpdateIndexAdd(index[scope], temp, id, path, scope, elev, fault, now)
    IN  IF ~server.ok
        THEN Outcome(server.err, index, manifest, dirs, temp, <<>>)
        ELSE IF fault = "create_dir"
        THEN Outcome("CreateDir", index, manifest, dirs, temp, <<>>)
        ELSE IF transports = None \/ transports[1] = <<>>
        THEN Outcome("InvalidRegistry", index, manifest, withDir, temp, fxDir)
        ELSE IF first = "stdio"
                /\ fault \in {"install_stdio_nosource", "install_stdio_invalid"}
        THEN Outcome("InvalidRegistry", index, manifest, withDir, temp, fxDir)
        ELSE IF first = "stdio" /\ fault = "install_stdio_git"
        THEN Outcome("GitFailed", index, manifest, withDir, temp, fxDir)
        ELSE IF first = "stdio" /\ fault = "install_stdio_copy"
        THEN Outcome("CopyFailed", index, manifest, withDir, temp, fxDir)
        ELSE IF first \notin KnownTransports
        THEN Outcome("UnsupportedTransport", index, manifest, withDir, temp, fxDir)
        ELSE IF fault = "write_manifest"
        THEN Outcome("WriteManifest", [index EXCEPT ![scope] = added.file],
                     manifest, withDir, added.temp, fxDir \o added.fx)
        ELSE Outcome(added.ret, [index EXCEPT ![scope] = added.file], written,
                     withDir, added.temp, fxMan \o added.fx)

\* install(paths, id, scope, server_override), server: the override or the
\* result of fetch_server_from_registry.
InstallOf(id, scope, elev, server, fault, now) ==
    LET dir == InstallDirOf(scope, id)
        path == ManifestPathOf(dir)
        fxDir == <<Fx("create_dir", "dir", scope, id, "self")>>
        withDir == dirs \cup {dir}
        transports == IF server.ok THEN server.v.transports ELSE None
        first == IF transports = None \/ transports[1] = <<>>
                 THEN "" ELSE transports[1][1].type
        fxMan == fxDir \o ManifestWriteFx(scope, id, elev)
        written == PutManifest(path, BuildManifest(server.v, dir))
        added == UpdateIndexAdd(index[scope], temp, id, path, scope, elev, fault, now)
    IN  IF ~server.ok
        THEN Outcome(server.err, index, manifest, dirs, temp, <<>>)
        ELSE IF fault = "create_dir"
        THEN Outcome("CreateDir", index, manifest, dirs, temp, <<>>)
        ELSE IF transports = None \/ transports[1] = <<>>
        THEN Outcome("InvalidRegistry", index, manifest, withDir, temp, fxDir)
        ELSE IF first = "stdio"
                /\ fault \in {"install_stdio_nosource", "install_stdio_invalid"}
        THEN Outcome("InvalidRegistry", index, manifest, withDir, temp, fxDir)
        ELSE IF first = "stdio" /\ fault = "install_stdio_git"
        THEN Outcome("GitFailed", index, manifest, withDir, temp, fxDir)
        ELSE IF first = "stdio" /\ fault = "install_stdio_copy"
        THEN Outcome("CopyFailed", index, manifest, withDir, temp, fxDir)
        ELSE IF first \notin KnownTransports
        THEN Outcome("UnsupportedTransport", index, manifest, withDir, temp, fxDir)
        ELSE IF fault = "write_manifest"
        THEN Outcome("WriteManifest", index, manifest, withDir, temp, fxDir)
        ELSE Outcome(added.ret, [index EXCEPT ![scope] = added.file], written,
                     withDir, added.temp, fxMan \o added.fx)

\* std::fs::remove_dir_all(install_dir): the directory and the manifest in it
WithoutDir(dir) ==
    [p \in DOMAIN manifest \ {ManifestPathOf(dir)} |-> manifest[p]]

UninstallFaults ==
    {"none", "remove_dir", "write_index", "write_temp", "pkexec_spawn",
     "pkexec_nonzero"}

UninstallFaultApplies(fault, scope, elev) ==
    \/ fault \in {"none", "remove_dir"}
    \/ IndexFaultApplies(fault, scope, elev)

\* UninstallOf with the directory of an unresolved id removed all the same.
UninstallOfRemovesUnresolved(id, elev, fault, now) ==
    LET info == GetUninstallInfoOf(id)
        scope == info[1].scope
        dir == info[1].install_dir
        by == IF scope = "system" /\ ~elev THEN "pkexec" ELSE "self"
        fxRm == <<Fx("remove_dir", "dir", dir.scope, dir.id, by)>>
        indexScope == info[1].manifest_path.scope
        removed == UpdateIndexRemove(index[indexScope], temp, id, scope, elev,
                                     fault, now)
    IN  IF info = None
        THEN Outcome("ServerNotFound", index, manifest,
                     dirs \ {InstallDirOf(s, id) : s \in Scopes}, temp,
                     <<Fx("remove_dir", "dir", "user", id, "self")>>)
        ELSE IF fault = "remove_dir"
        THEN Outcome("RmFailed", index, manifest, dirs, temp, <<>>)
        ELSE Outcome(removed.ret, [index EXCEPT ![indexScope] = removed.file],
                     WithoutDir(dir), dirs \ {dir}, removed.temp,
                     fxRm \o removed.fx)

\* UninstallOf putting the install directory back when the index update fails.
UninstallOfRollsBack(id, elev, fault, now) ==
    LET info == GetUninstallInfoOf(id)
        scope == info[1].scope
        dir == info[1].install_dir
        by == IF scope = "system" /\ ~elev THEN "pkexec" ELSE "self"
        fxRm == <<Fx("remove_dir", "dir", dir.scope, dir.id, by)>>
        indexScope == info[1].manifest_path.scope
        removed == UpdateIndexRemove(index[indexScope], temp, id, scope, elev,
                                     fault, now)
    IN  IF info = None
        THEN Outcome("ServerNotFound", index, manifest, dirs, temp, <<>>)
        ELSE IF fault = "remove_dir"
        THEN Outcome("RmFailed", index, manifest, dirs, temp, <<>>)
        ELSE IF removed.ret # "Ok"
        THEN Outcome(removed.ret, index, manifest, dirs, removed.temp,
                     fxRm \o removed.fx)
        ELSE Outcome(removed.ret, [index EXCEPT ![indexScope] = removed.file],
                     WithoutDir(dir), dirs \ {dir}, removed.temp,
                     fxRm \o removed.fx)

\* uninstall(paths, id)
UninstallOf(id, elev, fault, now) ==
    LET info == GetUninstallInfoOf(id)
        scope == info[1].scope
        dir == info[1].install_dir
        by == IF scope = "system" /\ ~elev THEN "pkexec" ELSE "self"
        fxRm == <<Fx("remove_dir", "dir", dir.scope, dir.id, by)>>
        indexScope == info[1].manifest_path.scope
        removed == UpdateIndexRemove(index[indexScope], temp, id, scope, elev,
                                     fault, now)
    IN  IF info = None
        THEN Outcome("ServerNotFound", index, manifest, dirs, temp, <<>>)
        ELSE IF fault = "remove_dir"
        THEN Outcome("RmFailed", index, manifest, dirs, temp, <<>>)
        ELSE Outcome(removed.ret, [index EXCEPT ![indexScope] = removed.file],
                     WithoutDir(dir), dirs \ {dir}, removed.temp,
                     fxRm \o removed.fx)

\* ---------------------------------------------------------------- config.rs

ConfigKeys == {"k1", "k2"}
ConfigValues == {"v1", "v2"}

\* config.insert(key, value)
ConfigInsert(config, key, value) ==
    [k \in DOMAIN config \cup {key} |-> IF k = key THEN value ELSE config[k]]

ConfigFaults == {"none", "read_manifest", "write_manifest"}

\* SetConfigValueOf with the manifest read and written as the typed Manifest.
SetConfigValueOfTyped(id, key, value, elev, fault) ==
    LET found == GetManifestPathOf(id)
        path == found[1]
        m == ReadManifest(path)
        typed == TypedManifest(m)
        new == [typed EXCEPT !.config = Some(ConfigInsert(typed.config[1], key, value))]
    IN  IF found = None
        THEN Outcome("ServerNotFound", index, manifest, dirs, temp, <<>>)
        ELSE IF fault = "read_manifest"
        THEN Outcome("ReadFailed", index, manifest, dirs, temp, <<>>)
        ELSE IF m.kind # "json"
        THEN Outcome("ParseFailed", index, manifest, dirs, temp, <<>>)
        ELSE IF fault = "write_manifest"
        THEN Outcome("WriteFailed", index, manifest, dirs, temp, <<>>)
        ELSE Outcome("Ok", index, PutManifest(path, new), dirs, temp,
                     ManifestWriteFx(path.scope, path.id, elev))

\* set_config_value(paths, id, key, value), run at privilege elev
SetConfigValueOf(id, key, value, elev, fault) ==
    LET found == GetManifestPathOf(id)
        path == found[1]
        m == ReadManifest(path)
        config == IF m.config = None THEN EmptyConfig ELSE m.config[1]
        new == [m EXCEPT !.config = Some(ConfigInsert(config, key, value))]
    IN  IF found = None
        THEN Outcome("ServerNotFound", index, manifest, dirs, temp, <<>>)
        ELSE IF fault = "read_manifest"
        THEN Outcome("ReadFailed", index, manifest, dirs, temp, <<>>)
        ELSE IF m.kind # "json"
        THEN Outcome("ParseFailed", index, manifest, dirs, temp, <<>>)
        ELSE IF fault = "write_manifest"
        THEN Outcome("WriteFailed", index, manifest, dirs, temp, <<>>)
        ELSE Outcome("Ok", index, PutManifest(path, new), dirs, temp,
                     ManifestWriteFx(path.scope, path.id, elev))

\* `config <id> get <key>` of the command line: the value printed for key.
ConfigGetOf(id, key) ==
    LET found == GetServerOf(id)
        config == found[1].manifest.config[1]
    IN  IF found = None THEN Err("ServerNotFound")
        ELSE IF key \notin DOMAIN config THEN Err("KeyNotFound")
        ELSE Ok(config[key])

\* --------------------------------------------------------------- connect.rs

Digits == <<"0", "1", "2", "3", "4", "5", "6", "7", "8", "9">>

\* The value of a decimal digit character, None for any other character.
DigitValue(c) ==
    IF \E d \in 1..10 : Digits[d] = c
    THEN Some((CHOOSE d \in 1..10 : Digits[d] = c) - 1)
    ELSE None

\* id.strip_prefix("com.user.connected.server")
StripPrefix(id) ==
    IF id # <<>> /\ Head(id) = "P" THEN Some(Tail(id)) ELSE None

\* A u32 is kept as two 16-bit limbs, value hi * Limb + lo, so that every
\* value up to u32::MAX = 4294967295 and the overflow past it are represented.
Limb == 65536

\* The u32 of a small natural number.
U32(n) == [hi |-> n \div Limb, lo |-> n % Limb]

\* n > max_n on u32 values, written a < b.
U32Less(a, b) == a.hi < b.hi \/ (a.hi = b.hi /\ a.lo < b.lo)

\* u32::MAX
U32Max == [hi |-> Limb - 1, lo |-> Limb - 1]

\* acc * 10 + d as parse::<u32> computes it: None when it passes u32::MAX.
U32MulAdd(acc, d) ==
    LET lo == acc.lo * 10 + d
        hi == acc.hi * 10 + (lo \div Limb)
    IN  IF hi >= Limb THEN None ELSE Some([hi |-> hi, lo |-> lo % Limb])

RECURSIVE ParseDigits(_, _)
ParseDigits(s, acc) ==
    IF s = <<>> THEN Some(acc)
    ELSE IF DigitValue(Head(s)) = None THEN None
    ELSE LET next == U32MulAdd(acc, DigitValue(Head(s))[1])
         IN  IF next = None THEN None ELSE ParseDigits(Tail(s), next[1])

\* s.parse::<u32>().ok(): an optional '+', then one or more digits, leading
\* zeros included, of a value that fits 32 bits; '-' is no digit.
ParseU32(s) ==
    LET digits == IF s # <<>> /\ Head(s) = "+" THEN Tail(s) ELSE s
    IN  IF digits = <<>> THEN None ELSE ParseDigits(digits, U32(0))

\* format!("{}", n): the decimal digits of n without leading zeros.
RECURSIVE FormatU32(_)
FormatU32(n) ==
    LET t == (n.hi % 10) * Limb + n.lo
        q == [hi |-> n.hi \div 10, lo |-> t \div 10]
    IN  IF q = U32(0) THEN <<Digits[(t % 10) + 1]>>
        ELSE FormatU32(q) \o <<Digits[(t % 10) + 1]>>

\* The suffix of a connected-server key, None for any other key.
SuffixOf(id) ==
    IF StripPrefix(id) = None THEN None ELSE ParseU32(StripPrefix(id)[1])

RECURSIVE MaxSuffix(_, _)
MaxSuffix(keys, max) ==
    IF keys = {} THEN max
    ELSE LET id == CHOOSE k \in keys : TRUE
             n == SuffixOf(id)
         IN  MaxSuffix(keys \ {id},
                       IF n # None /\ U32Less(max, n[1]) THEN n[1] ELSE max)

\* max_n + 1 in a build without overflow checks (release): it wraps to 0
\* past u32::MAX.  A build with overflow checks (debug) panics there instead;
\* ConnectOf takes that outcome under the fault "overflow_panic".
WrappingSucc(n) ==
    IF n.lo < Limb - 1 THEN [n EXCEPT !.lo = n.lo + 1]
    ELSE IF n.hi < Limb - 1 THEN [hi |-> n.hi + 1, lo |-> 0]
    ELSE U32(0)

\* NextConnectedServerId with the number of keys taken for the largest suffix.
NextConnectedServerIdByCount(scope) ==
    LET content == IF index[scope].kind = "absent" THEN DefaultIndex
                   ELSE index[scope]
    IN  IF content.kind # "json" THEN Err("ParseIndex")
        ELSE Ok(<<"P">> \o FormatU32(U32(Cardinality(DOMAIN content.servers) + 1)))

\* NextConnectedServerId scanning the keys of both scopes' indexes.
NextConnectedServerIdGlobal(scope) ==
    LET content == IF index[scope].kind = "absent" THEN DefaultIndex
                   ELSE index[scope]
        keysOf(s) == IF index[s].kind = "json" THEN DOMAIN index[s].servers
                     ELSE {}
    IN  IF content.kind # "json" THEN Err("ParseIndex")
        ELSE Ok(<<"P">> \o FormatU32(WrappingSucc(MaxSuffix(keysOf("user") \cup keysOf("system"), U32(0)))))

\* next_connected_server_id(paths, scope)
NextConnectedServerId(scope) ==
    LET content == IF index[scope].kind = "absent" THEN DefaultIndex
                   ELSE index[scope]
    IN  IF content.kind # "json" THEN Err("ParseIndex")
        ELSE Ok(<<"P">> \o FormatU32(WrappingSucc(MaxSuffix(DOMAIN content.servers, U32(0)))))

\* The caller-supplied overrides of connect.
Overrides(i, n, s, v, c) ==
    [id |-> i, name |-> n, summary |-> s, version |-> v, config |-> c]

OverrideSets ==
    { Overrides(None, None, None, None, <<>>),
      Overrides(Some(IdA), Some(N2), Some(S1), Some(V2), <<<<"k1", "v2">>>>) }

\* What try_fetch_manifest can return: None, or a JSON value with a non-empty
\* id and a non-empty transports array.
FetchedManifests ==
    {None} \cup {Some(d) : d \in {e \in Descriptors :
                                    /\ e.id = Some(IdB)
                                    /\ e.transports # None
                                    /\ e.transports[1] # <<>>}}

\* for (k, v) in config { config_obj.insert(k, v) }
RECURSIVE MergeConfig(_, _)
MergeConfig(config, pairs) ==
    IF pairs = <<>> THEN config
    ELSE MergeConfig(ConfigInsert(config, Head(pairs)[1], Head(pairs)[2]), Tail(pairs))

\* The id connect registers the server under.
ConnectId(ov, scope, fetched) ==
    IF ov.id # None THEN ov.id[1]
    ELSE IF fetched # None /\ fetched[1].id # None THEN fetched[1].id[1]
    ELSE IF NextConnectedServerId(scope).ok THEN NextConnectedServerId(scope).v
    ELSE <<"P", "1">>

\* ConnectManifest with raw mode writing an sse transport for every URL.
ConnectManifestAlwaysSse(url, ov, id, dir, fetched) ==
    IF fetched # None
    THEN [kind |-> "json",
          id |-> Some(id),
          name |-> IF ov.name # None THEN ov.name
                   ELSE IF fetched[1].name = None THEN Some(id)
                   ELSE fetched[1].name,
          summary |-> IF ov.summary # None THEN ov.summary
                      ELSE IF fetched[1].summary = None
                      THEN Some(<<"Connected via dmcp connect">>)
                      ELSE fetched[1].summary,
          version |-> IF ov.version # None THEN ov.version
                      ELSE IF fetched[1].version = None THEN Some(<<"1.0.0">>)
                      ELSE fetched[1].version,
          transports |-> fetched[1].transports,
          config |-> Some(MergeConfig(UnwrapOr(fetched[1].config, EmptyConfig),
                                      ov.config)),
          extra |-> fetched[1].extra,
          installDir |-> Some(dir)]
    ELSE [kind |-> "json",
          id |-> Some(id),
          name |-> Some(UnwrapOr(ov.name, id)),
          summary |-> Some(UnwrapOr(ov.summary, <<"Connected via dmcp connect">>)),
          version |-> Some(UnwrapOr(ov.version, <<"1.0.0">>)),
          transports |-> Some(<<Transport("sse", Some(url))>>),
          config |-> Some(MergeConfig(EmptyConfig, ov.config)),
          extra |-> None,
          installDir |-> Some(dir)]

\* The manifest connect writes, in manifest mode and in raw mode (connect_raw).
ConnectManifest(url, ov, id, dir, fetched) ==
    IF fetched # None
    THEN [kind |-> "json",
          id |-> Some(id),
          name |-> IF ov.name # None THEN ov.name
                   ELSE IF fetched[1].name = None THEN Some(id)
                   ELSE fetched[1].name,
          summary |-> IF ov.summary # None THEN ov.summary
                      ELSE IF fetched[1].summary = None
                      THEN Some(<<"Connected via dmcp connect">>)
                      ELSE fetched[1].summary,
          version |-> IF ov.version # None THEN ov.version
                      ELSE IF fetched[1].version = None THEN Some(<<"1.0.0">>)
                      ELSE fetched[1].version,
          transports |-> fetched[1].transports,
          config |-> Some(MergeConfig(UnwrapOr(fetched[1].config, EmptyConfig),
                                      ov.config)),
          extra |-> fetched[1].extra,
          installDir |-> Some(dir)]
    ELSE [kind |-> "json",
          id |-> Some(id),
          name |-> Some(UnwrapOr(ov.name, id)),
          summary |-> Some(UnwrapOr(ov.summary, <<"Connected via dmcp connect">>)),
          version |-> Some(UnwrapOr(ov.version, <<"1.0.0">>)),
          transports |-> Some(<<Transport(IF IsWebSocketUrl(url) THEN "websocket"
                                          ELSE "sse", Some(url))>>),
          config |-> Some(MergeConfig(EmptyConfig, ov.config)),
          extra |-> None,
          installDir |-> Some(dir)]

\* The failures of the external steps of one call, and "overflow_panic": the
\* panic of max_n + 1 in a build with overflow checks.
ConnectFaults ==
    {"none", "create_dir", "write_manifest", "write_index", "write_temp",
     "pkexec_spawn", "pkexec_nonzero", "overflow_panic"}

\* max_n is u32::MAX when next_connected_server_id adds 1 to it.
Overflows(scope) ==
    /\ index[scope].kind \in {"absent", "json"}
    /\ MaxSuffix(KeysOf(scope), U32(0)) = U32Max

ConnectFaultApplies(fault, url, scope, elev) ==
    \/ fault = "none"
    \/ /\ Trim(url) # ""
       /\ \/ fault \in {"create_dir", "write_manifest"}
          \/ IndexFaultApplies(fault, scope, elev)
          \/ fault = "overflow_panic" /\ Overflows(scope)

\* connect(paths, url, id_override, name, summary, version, config, scope),
\* fetched: what try_fetch_manifest(url) returns.
ConnectOf(rawUrl, ov, scope, elev, fetched, fault, now) ==
    LET url == Trim(rawUrl)
        id == ConnectId(ov, scope, fetched)
        dir == InstallDirOf(scope, id)
        path == ManifestPathOf(dir)
        fxDir == <<Fx("create_dir", "dir", scope, id, "self")>>
        withDir == dirs \cup {dir}
        fxMan == fxDir \o ManifestWriteFx(scope, id, elev)
        written == PutManifest(path, ConnectManifest(url, ov, id, dir, fetched))
        added == UpdateIndexAdd(index[scope], temp, id, path, scope, elev, fault, now)
    IN  IF url = ""
        THEN Outcome("InvalidUrl", index, manifest, dirs, temp, <<>>)
        ELSE IF fault = "overflow_panic"
        THEN Outcome("Panic", index, manifest, dirs, temp, <<>>)
        ELSE IF fault = "create_dir"
        THEN Outcome("CreateDir", index, manifest, dirs, temp, <<>>)
        ELSE IF fault = "write_manifest"
        THEN Outcome("WriteManifest", index, manifest, withDir, temp, fxDir)
        ELSE Outcome(IF added.ret = "Ok" THEN "Ok" ELSE "IndexError",
                     [index EXCEPT ![scope] = added.file], written, withDir,
                     added.temp, fxMan \o added.fx)

\* --------------------------------------------------------------- sources.rs

\* The registry URLs of the runs.
U1 == "https://r1/i.json"
U2 == "https://r2/i.json"
SourceUrls == {U1, U2}

\* A sources.list file: absent, or text as its sequence of lines.  A line is
\* a URL, the empty line "" or the comment line "#c".
TextFile(lines) == [kind |-> "text", lines |-> lines]

\* .filter(|l| !l.is_empty() && !l.starts_with('#'))
IsSourceLine(l) == l # "" /\ l # "#c"

RECURSIVE UrlsOf(_)
UrlsOf(lines) ==
    IF lines = <<>> THEN <<>>
    ELSE LET l == Trim(Head(lines))
         IN  (IF IsSourceLine(l) THEN <<l>> ELSE <<>>) \o UrlsOf(Tail(lines))

\* read_sources_file(path): no URL when the file cannot be read
ReadSourcesFile(scope) ==
    IF sources[scope].kind = "text" THEN UrlsOf(sources[scope].lines) ELSE <<>>

Tagged(urls, scope) == [n \in 1..Len(urls) |-> [url |-> urls[n], scope |-> scope]]

RECURSIVE FirstSeen(_, _)
FirstSeen(list, seen) ==
    IF list = <<>> THEN <<>>
    ELSE IF Head(list).url \in seen THEN FirstSeen(Tail(list), seen)
    ELSE <<Head(list)>> \o FirstSeen(Tail(list), seen \cup {Head(list).url})

\* ListSourcesOf keeping only the first occurrence of every URL.
ListSourcesOfFirstSeen(user, system) ==
    FirstSeen((IF user THEN Tagged(ReadSourcesFile("user"), "user") ELSE <<>>)
                 \o (IF system THEN Tagged(ReadSourcesFile("system"), "system")
                     ELSE <<>>), {})

\* list_sources(paths, include_user, include_system)
ListSourcesOf(user, system) ==
    (IF user THEN Tagged(ReadSourcesFile("user"), "user") ELSE <<>>)
       \o (IF system THEN Tagged(ReadSourcesFile("system"), "system") ELSE <<>>)

\* content.trim_end(): the lines without the empty lines at the end
RECURSIVE TrimEnd(_)
TrimEnd(lines) ==
    IF lines = <<>> THEN <<>>
    ELSE IF Trim(lines[Len(lines)]) = "" THEN TrimEnd(SubSeq(lines, 1, Len(lines) - 1))
    ELSE lines

\* What a sources call leaves: its result, the sources files and the file
\* operations it issued.
SourcesOutcome(r, src, f) == [ret |-> r, sources |-> src, fx |-> f]

\* The failures of the external steps of one sources call.  A read fails by
\* what the file is: absent, or bytes that are no UTF-8 text ("binary").
SourcesFaults == {"none", "create_dir", "write"}

InSeq(x, q) == \E n \in 1..Len(q) : q[n] = x

\* AddSourceOf without the test for a url that is already listed.
AddSourceOfNoMembershipTest(rawUrl, scope, fault) ==
    LET url == Trim(rawUrl)
        lines == IF sources[scope].kind = "text" THEN sources[scope].lines
                 ELSE <<>>
        fxDir == <<Fx("create_dir", "sources", scope, None, "self")>>
        new == TextFile(TrimEnd(lines) \o <<url>>)
    IN  IF url = "" THEN SourcesOutcome("InvalidUrl", sources, <<>>)
        ELSE IF fault = "create_dir" THEN SourcesOutcome("CreateDir", sources, <<>>)
        ELSE IF fault = "write" THEN SourcesOutcome("WriteFailed", sources, fxDir)
        ELSE SourcesOutcome("Ok", [sources EXCEPT ![scope] = new],
                            fxDir \o <<Fx("write", "sources", scope, None, "self")>>)

\* add_source(paths, url, scope)
AddSourceOf(rawUrl, scope, fault) ==
    LET url == Trim(rawUrl)
        lines == IF sources[scope].kind = "text" THEN sources[scope].lines
                 ELSE <<>>
        fxDir == <<Fx("create_dir", "sources", scope, None, "self")>>
        new == TextFile(TrimEnd(lines) \o <<url>>)
    IN  IF url = "" THEN SourcesOutcome("InvalidUrl", sources, <<>>)
        ELSE IF fault = "create_dir" THEN SourcesOutcome("CreateDir", sources, <<>>)
        ELSE IF InSeq(url, UrlsOf(lines))
        THEN SourcesOutcome("AlreadyExists", sources, fxDir)
        ELSE IF fault = "write" THEN SourcesOutcome("WriteFailed", sources, fxDir)
        ELSE SourcesOutcome("Ok", [sources EXCEPT ![scope] = new],
                            fxDir \o <<Fx("write", "sources", scope, None, "self")>>)

\* WithoutLine dropping the first line equal to the url only.
RECURSIVE WithoutFirstLine(_, _)
WithoutFirstLine(lines, url) ==
    IF lines = <<>> THEN <<>>
    ELSE IF Trim(Head(lines)) = url THEN Tail(lines)
    ELSE <<Head(lines)>> \o WithoutFirstLine(Tail(lines), url)

\* .filter(|l| l.trim() != url)
RECURSIVE WithoutLine(_, _)
WithoutLine(lines, url) ==
    IF lines = <<>> THEN <<>>
    ELSE (IF Trim(Head(lines)) = url THEN <<>> ELSE <<Head(lines)>>)
            \o WithoutLine(Tail(lines), url)

\* remove_source(paths, url, scope)
RemoveSourceOf(rawUrl, scope, fault) ==
    LET url == Trim(rawUrl)
        lines == sources[scope].lines
        left == WithoutLine(lines, url)
        \* lines.join("\n") ends with '\n' when the last line is empty, and
        \* then gets no further '\n': that empty line is not a line of the
        \* file written.
        new == TextFile(IF left # <<>> /\ left[Len(left)] = ""
                        THEN SubSeq(left, 1, Len(left) - 1) ELSE left)
    IN  IF url = "" THEN SourcesOutcome("InvalidUrl", sources, <<>>)
        ELSE IF sources[scope].kind # "text"
        THEN SourcesOutcome("ReadFailed", sources, <<>>)
        ELSE IF ~InSeq(url, UrlsOf(lines))
        THEN SourcesOutcome("NotFound", sources, <<>>)
        ELSE IF fault = "write" THEN SourcesOutcome("WriteFailed", sources, <<>>)
        ELSE SourcesOutcome("Ok", [sources EXCEPT ![scope] = new],
                            <<Fx("write", "sources", scope, None, "self")>>)

\* ------------------------------------------- install.rs: the registry scan

\* What one GET of a registry URL can give: no response (send fails), a
\* non-2xx status, a body that is no JSON, JSON without a "servers" array, or
\* a registry with its servers array.
Unreachable == [kind |-> "unreachable"]
HttpStatus == [kind |-> "status"]
NotJson == [kind |-> "notjson"]
NoServers == [kind |-> "noservers"]
Registry(servers) == [kind |-> "registry", servers |-> servers]

\* The entry a registry serves for id a; its name tells the registries
\* apart, and the entry of U2 carries the member "scope": "system".
RegistryServer(url) ==
    IF url = U1
    THEN Descriptor(Some(IdA), Some(N1), Some(S1), Some(V1),
                    Some(<<Transport("sse", Some("https://h/y"))>>), None)
    ELSE [Descriptor(Some(IdA), Some(N2), Some(S1), Some(V1),
                     Some(<<Transport("sse", Some("https://h/y"))>>), None)
             EXCEPT !.extra = Some("scope=system")]

ResponsesOf(url) ==
    {Unreachable, HttpStatus, NotJson, NoServers, Registry(<<RegistryServer(url)>>)}

\* The answers of the registries during one scan.
ResponseSets == {r \in [SourceUrls -> UNION {ResponsesOf(u) : u \in SourceUrls}] :
                    \A u \in SourceUrls : r[u] \in ResponsesOf(u)}

\* for server in servers { if server.get("id") == Some(id) { return ... } }
FindServer(servers, id) ==
    LET hits == {n \in 1..Len(servers) : servers[n].id = Some(id)}
    IN  IF hits = {} THEN None
        ELSE Some(servers[CHOOSE n \in hits : \A m \in hits : n <= m])

Get(source) == Fx("get", "registry", source.scope, <<source.url>>, "self")

\* for (url, _) in sources { ... } of fetch_server_from_registry
RECURSIVE ScanSources(_, _, _)
ScanSources(list, id, responses) ==
    IF list = <<>> THEN [result |-> Err("ServerNotFound"), fx |-> <<>>]
    ELSE LET r == responses[Head(list).url]
             rest == ScanSources(Tail(list), id, responses)
             next == [result |-> rest.result, fx |-> <<Get(Head(list))>> \o rest.fx]
             stop(e) == [result |-> Err(e), fx |-> <<Get(Head(list))>>]
         IN  IF r.kind = "unreachable" THEN stop("FetchFailed")
             ELSE IF r.kind = "status" THEN next
             ELSE IF r.kind = "notjson" THEN stop("FetchFailed")
             ELSE IF r.kind = "noservers" THEN stop("InvalidRegistry")
             ELSE IF FindServer(r.servers, id) # None
             THEN [result |-> Ok(FindServer(r.servers, id)[1]), fx |-> <<Get(Head(list))>>]
             ELSE next

\* fetch_server_from_registry(paths, id): the result and the GETs issued
FetchServerFromRegistryOf(id, responses, fault) ==
    LET list == ListSourcesOf(TRUE, TRUE)
    IN  IF list = <<>> THEN [result |-> Err("NoSources"), fx |-> <<>>]
        ELSE IF fault = "http_client" THEN [result |-> Err("HttpClient"), fx |-> <<>>]
        ELSE ScanSources(list, id, responses)

\* scope_from_registry_server(server)
ScopeFromRegistryServer(server) ==
    IF server.extra = Some("scope=system") THEN "system" ELSE "user"

\* ------------------------------------------------------ main.rs: commands

\* What one command leaves: whether the process handed the command over to
\* pkexec (re_exec_with_pkexec), the exit code, the result of the first
\* library call of the process (first) and of the last library call of the
\* process that finished the command (ret), the file operations of the
\* invoking process (fx) and of the pkexec child (childFx), and the files.
CmdResult(reexec, exit, first, r, f, childFx, idx, man, ds, tmp, src) ==
    [reexec |-> reexec, exit |-> exit, first |-> first, ret |-> r, fx |-> f,
     childFx |-> childFx, index |-> idx, manifest |-> man, dirs |-> ds,
     temp |-> tmp, sources |-> src]

ExitCode(r) == IF r = "Ok" THEN 0 ELSE 1

\* The command ends in the invoking process with library outcome o.
Direct(first, o, before) ==
    CmdResult(FALSE, ExitCode(o.ret), first, o.ret, before \o o.fx, <<>>,
              o.index, o.manifest, o.dirs, o.temp, sources)

\* re_exec_with_pkexec(): pkexec runs the same command line as root and the
\* invoking process exits with the child's code, or pkexec does not run it
\* (not installed, authentication dismissed) and the exit code is not 0.
\* o is the outcome of the command in the child, childBefore the operations
\* of the child that come before its library call.
ReExec(pkexec, first, o, before, childBefore) ==
    IF pkexec = "ran"
    THEN CmdResult(TRUE, ExitCode(o.ret), first, o.ret, before,
                   childBefore \o o.fx, o.index, o.manifest, o.dirs, o.temp,
                   sources)
    ELSE CmdResult(TRUE, 1, first, "PkexecFailed", before, <<>>, index, manifest,
                   dirs, temp, sources)

Unchanged(r) == Outcome(r, index, manifest, dirs, temp, <<>>)

\* The scope `install <id> [--system]` installs into.
CmdInstallScope(system, server) ==
    IF system THEN "system" ELSE ScopeFromRegistryServer(server)

\* CmdInstallOf with the re-execution placed after the install directory has
\* been created by the invoking process.
CmdInstallOfCreatesFirst(id, system, elev, responses, fault, pkexec, now) ==
    LET fetched == FetchServerFromRegistryOf(id, responses, "none")
        server == fetched.result
        scope == CmdInstallScope(system, server.v)
    IN  IF ~server.ok THEN Direct(server.err, Unchanged(server.err), fetched.fx)
        ELSE IF scope = "system" /\ ~elev
        THEN ReExec(pkexec, "none", InstallOf(id, scope, TRUE, server, fault, now),
                    fetched.fx \o <<Fx("create_dir", "dir", scope, id, "self")>>,
                    fetched.fx)
        ELSE Direct("none", InstallOf(id, scope, elev, server, fault, now), fetched.fx)

\* Commands::Install { id, system }; the registries answer the pkexec child
\* as they answered the invoking process.
CmdInstallOf(id, system, elev, responses, fault, pkexec, now) ==
    LET fetched == FetchServerFromRegistryOf(id, responses, "none")
        server == fetched.result
        scope == CmdInstallScope(system, server.v)
    IN  IF ~server.ok THEN Direct(server.err, Unchanged(server.err), fetched.fx)
        ELSE IF scope = "system" /\ ~elev
        THEN ReExec(pkexec, "none", InstallOf(id, scope, TRUE, server, fault, now),
                    fetched.fx, fetched.fx)
        ELSE Direct("none", InstallOf(id, scope, elev, server, fault, now), fetched.fx)

\* Commands::Uninstall { id }
CmdUninstallOf(id, elev, fault, pkexec, now) ==
    LET info == GetUninstallInfoOf(id)
    IN  IF info # None /\ info[1].scope = "system" /\ ~elev
        THEN ReExec(pkexec, "none", UninstallOf(id, TRUE, fault, now), <<>>, <<>>)
        ELSE Direct("none", UninstallOf(id, elev, fault, now), <<>>)

\* The outcome of a sources call as the outcome of a command.
OfSources(o) ==
    [ret |-> o.ret, fx |-> o.fx, index |-> index, manifest |-> manifest,
     dirs |-> dirs, temp |-> temp, sources |-> o.sources]

WithSources(r, src) == [r EXCEPT !.sources = src]

\* SourcesAction::Add { url, system } and SourcesAction::Remove { url, system }
CmdSourcesOf(action, url, system, elev, fault, pkexec) ==
    LET scope == IF system THEN "system" ELSE "user"
        o == IF action = "add" THEN AddSourceOf(url, scope, fault)
             ELSE RemoveSourceOf(url, scope, fault)
    IN  IF scope = "system" /\ ~elev
        THEN WithSources(ReExec(pkexec, "none", OfSources(o), <<>>, <<>>),
                         IF pkexec = "ran" THEN o.sources ELSE sources)
        ELSE WithSources(Direct("none", OfSources(o), <<>>), o.sources)

\* is_system_scope(path, system_install_dir)
IsSystemScope(path) == path.scope = "system"

\* CmdConfigSetOf handing a failed write over to pkexec in either scope.
CmdConfigSetOfAnyScope(id, key, value, elev, fault, childFault, pkexec) ==
    LET o == SetConfigValueOf(id, key, value, elev, fault)
        path == GetManifestPathOf(id)[1]
    IN  IF o.ret = "WriteFailed" /\ ~elev
        THEN ReExec(pkexec, o.ret,
                    SetConfigValueOf(id, key, value, TRUE, childFault),
                    o.fx, <<>>)
        ELSE Direct(o.ret, o, <<>>)

\* ConfigAction::Set { key, value }
CmdConfigSetOf(id, key, value, elev, fault, childFault, pkexec) ==
    LET o == SetConfigValueOf(id, key, value, elev, fault)
        path == GetManifestPathOf(id)[1]
    IN  IF o.ret = "WriteFailed" /\ ~elev
        THEN IF IsSystemScope(path)
             THEN ReExec(pkexec, o.ret,
                         SetConfigValueOf(id, key, value, TRUE, childFault),
                         o.fx, <<>>)
             ELSE Direct(o.ret, o, <<>>)
        ELSE Direct(o.ret, o, <<>>)

\* ------------------------------------------------------------------ actions

\* What log keeps of a successful mutating call c that returned output: the
\* id it acted on (for connect the id it returned), the scope, and whether
\* connect generated the id (no id override, no fetched manifest).
LogEntry(c, output) ==
    [op |-> c.op,
     id |-> IF c.op = "connect" THEN output[1] ELSE c.id,
     scope |-> c.scope,
     generated |-> c.op = "connect" /\ c.ov.id = None /\ c.fetched = None]

\* A mutating call reads the clock once (rfc3339_now) and leaves its outcome.
CommitWith(o, output) ==
    /\ log' = IF o.ret = "Ok" THEN Append(log, LogEntry(call', output)) ELSE log
    /\ index' = o.index
    /\ manifest' = o.manifest
    /\ dirs' = o.dirs
    /\ temp' = o.temp
    /\ ret' = o.ret
    /\ fx' = o.fx
    /\ out' = output
    /\ clock' = clock + 1
    /\ UNCHANGED <<edits, sources, procs>>

\* A call that does not run install_stdio leaves the staging directory alone.
Commit(o) == CommitWith(o, None) /\ UNCHANGED staging

\* One call of install.
InstallCall(id, scope, elev, server, fault) ==
    /\ InstallFaultApplies(fault, scope, elev, server)
    /\ call' = [op |-> "install", id |-> id, scope |-> scope, elev |-> elev,
                server |-> server]
    /\ CommitWith(InstallOf(id, scope, elev, server, fault, clock + 1), None)
    /\ staging' = StagingAfterInstall(server, fault)

Install(id, scope, elev, server, fault) ==
    /\ clock < MaxClock
    /\ InstallCall(id, scope, elev, server, fault)

\* install with no failing step, as one call of a run of up to MaxCalls calls.
InstallBounded(id, scope, elev, server) ==
    /\ clock < MaxCalls
    /\ InstallCall(id, scope, elev, server, "none")

ListServers(user, system, orderU, orderS) ==
    /\ call' = [op |-> "list_servers", user |-> user, system |-> system]
    /\ out' = Some(ListServersOf(user, system, orderU, orderS))
    /\ ret' = "Ok"
    /\ fx' = <<>>
    /\ UNCHANGED <<index, manifest, dirs, temp, clock, edits, log, sources, procs,
                 staging>>

\* One call of uninstall.
UninstallCall(id, elev, fault) ==
    /\ LET info == GetUninstallInfoOf(id)
       IN  /\ \/ fault = "none"
              \/ info # None /\ UninstallFaultApplies(fault, info[1].scope, elev)
           /\ call' = [op |-> "uninstall", id |-> id, elev |-> elev,
                       scope |-> IF info = None THEN "none" ELSE info[1].scope]
    /\ Commit(UninstallOf(id, elev, fault, clock + 1))

Uninstall(id, elev, fault) ==
    /\ clock < MaxClock
    /\ UninstallCall(id, elev, fault)

SetConfigValue(id, key, value, elev, fault) ==
    /\ clock < MaxClock
    /\ fault = "none" \/ GetManifestPathOf(id) # None
    /\ call' = [op |-> "set_config_value", id |-> id, key |-> key,
                value |-> value, elev |-> elev,
                scope |-> IF GetManifestPathOf(id) = None THEN "none"
                          ELSE GetManifestPathOf(id)[1].scope]
    /\ Commit(SetConfigValueOf(id, key, value, elev, fault))

\* One call of connect.
ConnectCall(url, ov, scope, elev, fetched, fault) ==
    /\ ConnectFaultApplies(fault, url, scope, elev)
    /\ fault = "overflow_panic" => ov.id = None /\ fetched = None
    /\ call' = [op |-> "connect", url |-> url, ov |-> ov, scope |-> scope,
                elev |-> elev, fetched |-> fetched]
    /\ LET o == ConnectOf(url, ov, scope, elev, fetched, fault, clock + 1)
       IN  CommitWith(o, IF o.ret = "Ok" THEN Some(ConnectId(ov, scope, fetched))
                         ELSE None)
    /\ UNCHANGED staging

Connect(url, ov, scope, elev, fetched, fault) ==
    /\ clock < MaxClock
    /\ ConnectCall(url, ov, scope, elev, fetched, fault)

\* connect with no id override whose fetch yields no manifest, as one call of
\* a run of up to MaxCalls calls: the id is generated.
ConnectGenerated(url, scope, elev) ==
    /\ clock < MaxCalls
    /\ ConnectCall(url, Overrides(None, None, None, None, <<>>), scope, elev,
                   None, "none")

\* connect with the id override `id`, in raw mode, as one call of a run of up
\* to MaxCalls calls.
ConnectNamed(id, scope) ==
    /\ clock < MaxCalls
    /\ ConnectCall("wss://h/x", Overrides(Some(id), None, None, None, <<>>),
                   scope, FALSE, None, "none")

\* connect with no id override in raw mode, in a build that wraps on overflow
\* ("none") or in one that panics on it ("overflow_panic").
ConnectAuto(scope, fault) ==
    /\ clock < MaxCalls
    /\ ConnectCall("https://h/y", Overrides(None, None, None, None, <<>>),
                   scope, FALSE, None, fault)

\* uninstall with no failing step, as one call of a run of up to MaxCalls
\* calls.
UninstallConnected(id, elev) ==
    /\ clock < MaxCalls
    /\ UninstallCall(id, elev, "none")

GetServer(id) ==
    /\ call' = [op |-> "get_server", id |-> id]
    /\ out' = GetServerOf(id)
    /\ ret' = "Ok"
    /\ fx' = <<>>
    /\ UNCHANGED <<index, manifest, dirs, temp, clock, edits, log, sources, procs,
                 staging>>

GetManifestPath(id) ==
    /\ call' = [op |-> "get_manifest_path", id |-> id]
    /\ out' = GetManifestPathOf(id)
    /\ ret' = "Ok"
    /\ fx' = <<>>
    /\ UNCHANGED <<index, manifest, dirs, temp, clock, edits, log, sources, procs,
                 staging>>

\* Another program overwrites an index file with text that is no JSON.
EnvCorruptIndex(scope) ==
    /\ edits < MaxEdits
    /\ edits' = edits + 1
    /\ index' = [index EXCEPT ![scope] = CorruptFile]
    /\ call' = [op |-> "env"]
    /\ ret' = "Ok"
    /\ fx' = <<>>
    /\ out' = None
    /\ UNCHANGED <<manifest, dirs, temp, clock, log, sources, procs, staging>>

\* Another program overwrites a manifest file with text that is no JSON, or
\* removes the install directory by hand.
EnvDamageManifest(path, how) ==
    /\ edits < MaxEdits
    /\ path \in DOMAIN manifest
    /\ edits' = edits + 1
    /\ \/ /\ how = "corrupt"
          /\ manifest' = [manifest EXCEPT ![path] = CorruptFile]
          /\ UNCHANGED dirs
       \/ /\ how = "remove"
          /\ manifest' = WithoutDir(path)
          /\ dirs' = dirs \ {path}
    /\ call' = [op |-> "env"]
    /\ ret' = "Ok"
    /\ fx' = <<>>
    /\ out' = None
    /\ UNCHANGED <<index, temp, clock, log, sources, procs, staging>>

\* The command-line processes that can run at the same time.
Procs == {1, 2}

\* A process that has not started its command.
IdleProc == [pc |-> "idle"]

\* A sources call leaves its outcome; it reads no clock.
CommitSources(o) ==
    /\ sources' = o.sources
    /\ ret' = o.ret
    /\ fx' = o.fx
    /\ out' = None
    /\ UNCHANGED <<index, manifest, dirs, temp, clock, edits, log, procs,
                 staging>>

AddSource(url, scope, fault) ==
    /\ call' = [op |-> "add_source", url |-> url, scope |-> scope]
    /\ CommitSources(AddSourceOf(url, scope, fault))

RemoveSource(url, scope, fault) ==
    /\ fault # "create_dir"
    /\ fault = "write" => InSeq(Trim(url), ReadSourcesFile(scope))
    /\ call' = [op |-> "remove_source", url |-> url, scope |-> scope]
    /\ CommitSources(RemoveSourceOf(url, scope, fault))

ListSources(user, system) ==
    /\ call' = [op |-> "list_sources", user |-> user, system |-> system]
    /\ out' = Some(ListSourcesOf(user, system))
    /\ ret' = "Ok"
    /\ fx' = <<>>
    /\ UNCHANGED <<index, manifest, dirs, temp, clock, edits, log, sources, procs,
                 staging>>

FetchServerFromRegistry(id, responses, fault) ==
    /\ fault = "http_client"
          => /\ ListSourcesOf(TRUE, TRUE) # <<>>
             /\ responses = [u \in SourceUrls |-> Unreachable]
    /\ call' = [op |-> "fetch_server_from_registry", id |-> id,
                responses |-> responses, fault |-> fault]
    /\ LET o == FetchServerFromRegistryOf(id, responses, fault)
       IN  /\ out' = Some(o.result)
           /\ ret' = IF o.result.ok THEN "Ok" ELSE o.result.err
           /\ fx' = o.fx
    /\ UNCHANGED <<index, manifest, dirs, temp, clock, edits, log, sources, procs,
                 staging>>

\* The text a user leaves in a sources.list edited by hand: a comment line,
\* the same URL twice, an empty line at the end.
HandEdited == {<<"#c", U1, U1, "">>}

\* The user edits a sources.list in a text editor.
EnvEditSources(scope, lines) ==
    /\ edits < MaxEdits
    /\ edits' = edits + 1
    /\ sources' = [sources EXCEPT ![scope] = TextFile(lines)]
    /\ call' = [op |-> "env"]
    /\ ret' = "Ok"
    /\ fx' = <<>>
    /\ out' = None
    /\ UNCHANGED <<index, manifest, dirs, temp, clock, log, procs, staging>>

\* Another program leaves bytes that are no UTF-8 text in a sources.list.
EnvDamageSources(scope) ==
    /\ edits < MaxEdits
    /\ edits' = edits + 1
    /\ sources' = [sources EXCEPT ![scope] = [kind |-> "binary"]]
    /\ call' = [op |-> "env"]
    /\ ret' = "Ok"
    /\ fx' = <<>>
    /\ out' = None
    /\ UNCHANGED <<index, manifest, dirs, temp, clock, log, procs, staging>>

\* One run of the command line leaves its result; out keeps what the
\* invoking process reports and what it left to the pkexec child.
CommitCmd(r) ==
    /\ index' = r.index
    /\ manifest' = r.manifest
    /\ dirs' = r.dirs
    /\ temp' = r.temp
    /\ sources' = r.sources
    /\ ret' = r.ret
    /\ fx' = r.fx
    /\ out' = Some([reexec |-> r.reexec, exit |-> r.exit, first |-> r.first,
                    childFx |-> r.childFx])
    /\ UNCHANGED <<edits, log, procs, staging>>

\* `dmcp install <id> [--system]` run by a process that is root or not.
CmdInstall(id, system, elev, responses, fault, pkexec) ==
    /\ clock < MaxClock
    /\ LET server == FetchServerFromRegistryOf(id, responses, "none").result
           scope == CmdInstallScope(system, server.v)
       IN  /\ fault = "none"
              \/ (server.ok /\ InstallFaultApplies(fault, scope,
                                                   elev \/ scope = "system", server))
           /\ pkexec = "ran" \/ (server.ok /\ scope = "system" /\ ~elev)
           /\ call' = [op |-> "cmd", cmd |-> "install", id |-> id,
                       system |-> system, elev |-> elev,
                       target |-> IF server.ok THEN scope ELSE "none"]
    /\ clock' = clock + 1
    /\ CommitCmd(CmdInstallOf(id, system, elev, responses, fault, pkexec, clock + 1))

\* `dmcp uninstall <id>`
CmdUninstall(id, elev, fault, pkexec) ==
    /\ clock < MaxClock
    /\ LET info == GetUninstallInfoOf(id)
           scope == IF info = None THEN "none" ELSE info[1].scope
       IN  /\ fault = "none"
              \/ (info # None /\ UninstallFaultApplies(fault, scope,
                                                       elev \/ scope = "system"))
           /\ pkexec = "ran" \/ (scope = "system" /\ ~elev)
           /\ call' = [op |-> "cmd", cmd |-> "uninstall", id |-> id,
                       elev |-> elev, target |-> scope]
    /\ clock' = clock + 1
    /\ CommitCmd(CmdUninstallOf(id, elev, fault, pkexec, clock + 1))

\* `dmcp sources add <url> [--system]` and `dmcp sources remove <url> [--system]`
CmdSources(action, url, system, elev, fault, pkexec) ==
    /\ pkexec = "ran" \/ (system /\ ~elev)
    /\ action = "remove" /\ fault = "write"
          => InSeq(Trim(url), ReadSourcesFile(IF system THEN "system" ELSE "user"))
    /\ call' = [op |-> "cmd", cmd |-> "sources_" \o action, url |-> url,
                system |-> system, elev |-> elev,
                target |-> IF system THEN "system" ELSE "user"]
    /\ UNCHANGED clock
    /\ CommitCmd(CmdSourcesOf(action, url, system, elev, fault, pkexec))

\* `dmcp config <id> set <key> <value>`
CmdConfigSet(id, key, value, elev, fault, childFault, pkexec) ==
    /\ clock < MaxClock
    /\ LET found == GetManifestPathOf(id)
           handed == /\ found # None
                     /\ SetConfigValueOf(id, key, value, elev, fault).ret = "WriteFailed"
                     /\ ~elev
                     /\ IsSystemScope(found[1])
       IN  /\ fault = "none" \/ found # None
           /\ pkexec = "ran" \/ handed
           /\ childFault = "none" \/ (handed /\ pkexec = "ran")
           /\ call' = [op |-> "cmd", cmd |-> "config_set", id |-> id, key |-> key,
                       value |-> value, elev |-> elev, fault |-> fault,
                       target |-> IF found = None THEN "none" ELSE found[1].scope]
    /\ clock' = clock + 1
    /\ CommitCmd(CmdConfigSetOf(id, key, value, elev, fault, childFault, pkexec))

\* The descriptor the concurrent installs are given.
RaceServer == Ok(RegistryServer(U1))

\* A process between the steps of install(id, scope, Some(server)): its
\* arguments, the time of each step it has taken, the index content it read
\* and its result.
Proc(pc, id, scope, elev, began, readAt, wroteAt, content, r) ==
    [pc |-> pc, id |-> id, scope |-> scope, elev |-> elev, began |-> began,
     readAt |-> readAt, wroteAt |-> wroteAt, content |-> content, ret |-> r]

\* One step of one process; time passes with every step.
RaceStep(p, step, next, f) ==
    /\ procs' = [procs EXCEPT ![p] = next]
    /\ clock' = clock + 1
    /\ call' = [op |-> "race", proc |-> p, step |-> step]
    /\ ret' = "Ok"
    /\ fx' = f
    /\ out' = None
    /\ UNCHANGED <<edits, sources, staging>>

\* install up to the manifest write: create_dir_all and std::fs::write
RaceBegin(p, id, scope, elev) ==
    /\ procs[p].pc = "idle"
    /\ LET dir == InstallDirOf(scope, id)
       IN  /\ dirs' = dirs \cup {dir}
           /\ manifest' = PutManifest(ManifestPathOf(dir),
                                      BuildManifest(RaceServer.v, dir))
           /\ RaceStep(p, "begin",
                       Proc("manifest", id, scope, elev, clock + 1, 0, 0,
                            AbsentFile, "none"),
                       <<Fx("create_dir", "dir", scope, id, "self")>>
                          \o ManifestWriteFx(scope, id, elev))
    /\ UNCHANGED <<index, temp, log>>

\* update_index_add: std::fs::read_to_string(&index_path)
RaceReadIndex(p) ==
    /\ procs[p].pc = "manifest"
    /\ RaceStep(p, "read",
                [procs[p] EXCEPT !.pc = "read", !.readAt = clock + 1,
                                 !.content = index[procs[p].scope]],
                <<>>)
    /\ UNCHANGED <<index, manifest, dirs, temp, log>>

\* RaceContent with the index read again when it is written.
RaceContentFresh(p) == index[procs[p].scope]

\* The index content update_index_add modifies: the one it read.
RaceContent(p) == procs[p].content

\* update_index_add: insert the key, set updated, write by the scope's path
RaceWriteIndex(p) ==
    /\ procs[p].pc = "read"
    /\ LET me == procs[p]
           path == ManifestPathOf(InstallDirOf(me.scope, me.id))
           added == UpdateIndexAdd(RaceContent(p), temp, me.id, path, me.scope,
                                   me.elev, "none", clock + 1)
       IN  /\ index' = [index EXCEPT ![me.scope] = added.file]
           /\ temp' = added.temp
           /\ log' = IF added.ret = "Ok"
                     THEN Append(log, [op |-> "install", id |-> me.id,
                                       scope |-> me.scope, generated |-> FALSE])
                     ELSE log
           /\ RaceStep(p, "write",
                       [me EXCEPT !.pc = "done", !.wroteAt = clock + 1,
                                  !.ret = added.ret],
                       added.fx)
    /\ UNCHANGED <<manifest, dirs>>

\* The ids a lookup is asked for: the named ones and the first generated one.
QueryIds == NamedIds \cup {<<"P", "1">>}

ServerInputs ==
    {Ok(d) : d \in Descriptors} \cup {Err("NoSources"), Err("ServerNotFound")}

Init ==
    /\ index = [s \in Scopes |-> AbsentFile]
    /\ manifest = <<>>
    /\ dirs = {}
    /\ temp = None
    /\ clock = 0
    /\ edits = 0
    /\ call = [op |-> "init"]
    /\ ret = "Ok"
    /\ fx = <<>>
    /\ out = None
    /\ log = <<>>
    /\ sources = [s \in Scopes |-> AbsentFile]
    /\ procs = [p \in Procs |-> IdleProc]
    /\ staging = FALSE

\* The mutation engine with every failure of its external steps.
Next ==
    \/ \E id \in NamedIds, scope \in Scopes, elev \in BOOLEAN,
          server \in ServerInputs, fault \in InstallFaults :
          Install(id, scope, elev, server, fault)
    \/ \E id \in QueryIds, elev \in BOOLEAN, fault \in UninstallFaults :
          Uninstall(id, elev, fault)
    \/ \E id \in QueryIds, key \in ConfigKeys, value \in ConfigValues,
          elev \in BOOLEAN, fault \in ConfigFaults :
          SetConfigValue(id, key, value, elev, fault)
    \/ \E url \in Urls, ov \in OverrideSets, scope \in Scopes, elev \in BOOLEAN,
          fetched \in FetchedManifests, fault \in ConnectFaults :
          Connect(url, ov, scope, elev, fetched, fault)
    \/ \E scope \in Scopes : EnvCorruptIndex(scope)

Spec == Init /\ [][Next]_vars

\* Discovery over the states the mutations and outside edits leave behind.
\* The only failure kept is the one that leaves an index entry without its
\* manifest: an uninstall whose index write fails.
NextDiscovery ==
    \/ \E id \in NamedIds, scope \in Scopes, elev \in BOOLEAN,
          server \in ServerInputs :
          Install(id, scope, elev, server, "none")
    \/ \E id \in QueryIds, elev \in BOOLEAN, fault \in {"none", "write_index"} :
          Uninstall(id, elev, fault)
    \/ \E id \in QueryIds, key \in ConfigKeys, value \in ConfigValues,
          elev \in BOOLEAN :
          SetConfigValue(id, key, value, elev, "none")
    \/ \E url \in Urls, ov \in OverrideSets, scope \in Scopes, elev \in BOOLEAN,
          fetched \in FetchedManifests :
          Connect(url, ov, scope, elev, fetched, "none")
    \/ \E user \in BOOLEAN, system \in BOOLEAN :
          \E orderU \in Orders(KeysOf("user")), orderS \in Orders(KeysOf("system")) :
             ListServers(user, system, orderU, orderS)
    \/ \E id \in QueryIds : GetServer(id)
    \/ \E id \in QueryIds : GetManifestPath(id)
    \/ \E scope \in Scopes : EnvCorruptIndex(scope)
    \/ \E path \in DOMAIN manifest, how \in {"corrupt", "remove"} :
          EnvDamageManifest(path, how)

SpecDiscovery == Init /\ [][NextDiscovery]_vars

\* The generated ids a run of MaxCalls calls can hold when one is removed.
ConnectedIds == {<<"P", "1">>, <<"P", "2">>, <<"P", "3">>}

\* Runs of connects that generate their id and of uninstalls of such ids.
NextConnect ==
    \/ \E url \in Urls \ {" "}, scope \in Scopes, elev \in BOOLEAN :
          ConnectGenerated(url, scope, elev)
    \/ \E id \in ConnectedIds, elev \in BOOLEAN : UninstallConnected(id, elev)

SpecConnect == Init /\ [][NextConnect]_vars

\* Prefixed keys a caller can register with --id: the largest u32 suffix,
\* the suffix 0, one with leading zeros, one with a sign, one with '-'.
PMax == <<"P", "4", "2", "9", "4", "9", "6", "7", "2", "9", "5">>
SuffixIds ==
    {PMax, <<"P", "0">>, <<"P", "0", "0", "7">>, <<"P", "+", "8">>,
     <<"P", "-", "1">>}

\* Runs of connects into the user scope, with ids given by the caller and
\* with generated ids.
NextSuffix ==
    \/ \E id \in SuffixIds : ConnectNamed(id, "user")
    \/ \E fault \in {"none", "overflow_panic"} : ConnectAuto("user", fault)

SpecSuffix == Init /\ [][NextSuffix]_vars

\* One id installed into both scopes, with descriptors of that id or of no
\* id whose first transport install accepts, then uninstalled and looked up.
NextShadow ==
    \/ \E scope \in Scopes, elev \in BOOLEAN,
          d \in {e \in Descriptors : /\ e.id \in {None, Some(IdA)}
                                      /\ e.transports # None
                                      /\ e.transports[1] # <<>>} :
          InstallBounded(IdA, scope, elev, Ok(d))
    \/ \E elev \in BOOLEAN : UninstallConnected(IdA, elev)
    \/ \E orderU \in Orders(KeysOf("user")), orderS \in Orders(KeysOf("system")) :
          ListServers(TRUE, TRUE, orderU, orderS)
    \/ GetServer(IdA)

SpecShadow == Init /\ [][NextShadow]_vars

\* The sources files and the registry scan that reads them.
NextSources ==
    \/ \E url \in SourceUrls \cup {" "}, scope \in Scopes, fault \in SourcesFaults :
          AddSource(url, scope, fault)
    \/ \E url \in SourceUrls \cup {" "}, scope \in Scopes, fault \in SourcesFaults :
          RemoveSource(url, scope, fault)
    \/ \E user \in BOOLEAN, system \in BOOLEAN : ListSources(user, system)
    \/ \E id \in NamedIds, responses \in ResponseSets, fault \in {"none", "http_client"} :
          FetchServerFromRegistry(id, responses, fault)
    \/ \E scope \in Scopes, lines \in HandEdited : EnvEditSources(scope, lines)

SpecSources == Init /\ [][NextSources]_vars

\* The longest sources.list of the runs, in lines.
MaxLines == 4

\* What add_source and remove_source are called with: the two registry URLs,
\* blanks, a URL with blanks around it, and text that starts with '#'.
SourceInputs == SourceUrls \cup {" ", " https://r1/i.json ", "#c"}

\* A sources.list edited by hand: a comment, a URL, the same URL with blanks
\* around it, an empty line at the end.
PaddedFiles == {<<"#c", U1, " https://r1/i.json ", "">>}

\* The sources files under add_source, remove_source and outside edits; the
\* system file is reached by add_source of one URL only.
NextSourcesFile ==
    \/ \E url \in SourceInputs, fault \in SourcesFaults :
          /\ sources["user"].kind = "text" => Len(sources["user"].lines) < MaxLines
          /\ AddSource(url, "user", fault)
    \/ \E fault \in SourcesFaults : AddSource(U1, "system", fault)
    \/ \E url \in SourceInputs, scope \in Scopes, fault \in SourcesFaults :
          RemoveSource(url, scope, fault)
    \/ \E user \in BOOLEAN, system \in BOOLEAN : ListSources(user, system)
    \/ \E lines \in PaddedFiles : EnvEditSources("user", lines)
    \/ EnvDamageSources("user")

SpecSourcesFile == Init /\ [][NextSourcesFile]_vars

\* The answers of the registries in the runs of the command line: every
\* registry serves the entry without a scope member, or every registry
\* serves the entry with "scope": "system".
CommandResponses ==
    {[u \in SourceUrls |-> Registry(<<RegistryServer(v)>>)] : v \in SourceUrls}

Pkexec == {"ran", "refused"}

\* Runs of the command line, by a root and by a non-root process.
NextCommand ==
    \/ \E system \in BOOLEAN, elev \in BOOLEAN, responses \in CommandResponses,
          fault \in {"none", "write_index"}, pkexec \in Pkexec :
          CmdInstall(IdA, system, elev, responses, fault, pkexec)
    \/ \E elev \in BOOLEAN, fault \in {"none", "remove_dir", "write_index"},
          pkexec \in Pkexec :
          CmdUninstall(IdA, elev, fault, pkexec)
    \/ \E action \in {"add", "remove"}, system \in BOOLEAN,
          elev \in BOOLEAN, fault \in {"none", "write"}, pkexec \in Pkexec :
          CmdSources(action, U1, system, elev, fault, pkexec)
    \/ \E elev \in BOOLEAN, fault \in ConfigFaults,
          childFault \in {"none", "write_manifest"}, pkexec \in Pkexec :
          CmdConfigSet(IdA, "k1", "v2", elev, fault, childFault, pkexec)

SpecCommand == Init /\ [][NextCommand]_vars

\* Two installs run by two processes at the same time, step by step.
NextRace ==
    \/ \E p \in Procs, id \in NamedIds, scope \in Scopes, elev \in BOOLEAN :
          RaceBegin(p, id, scope, elev)
    \/ \E p \in Procs : RaceReadIndex(p)
    \/ \E p \in Procs : RaceWriteIndex(p)

SpecRace == Init /\ [][NextRace]_vars

\* ---------------------------------------------------- discovery: properties

OtherScope(s) == IF s = "user" THEN "system" ELSE "user"

\* The manifest file the index of scope s records for key k.
EntryManifest(s, k) == ReadManifest(index[s].servers[k].location)

\* The keys of the index of scope s whose manifest loads.
LoadableKeys(s) ==
    IF index[s].kind = "json"
    THEN {k \in DOMAIN index[s].servers : ManifestParses(EntryManifest(s, k))}
    ELSE {}

\* The id a loadable entry is listed under: the manifest's id, else the key.
ListedId(s, k) == UnwrapOr(EntryManifest(s, k).id, k)

\* The records scope s can contribute for id i.
Yields(s, i) ==
    {ServerInfoOf(k, EntryManifest(s, k), s) :
        k \in {j \in LoadableKeys(s) : ListedId(s, j) = i}}

YieldedIds(s) == {ListedId(s, k) : k \in LoadableKeys(s)}

\* The list holds exactly the entries of scope s: one record of that scope
\* for each id it yields, and nothing else.
ExactlyScope(list, s) ==
    /\ \A n \in 1..Len(list) :
          list[n].scope = s /\ list[n] \in Yields(s, list[n].id)
    /\ \A i \in YieldedIds(s) :
          Cardinality({n \in 1..Len(list) : list[n].id = i}) = 1

ListedBoth == call.op = "list_servers" /\ call.user /\ call.system

Requested(s) ==
    call.op = "list_servers" /\ (IF s = "user" THEN call.user ELSE call.system)

\* C1: listing both scopes returns exactly one record for every id either
\* scope yields; it is a user-scope record whenever the user scope yields a
\* loadable server with that id, and a system-scope record only otherwise.
C1_Precedence ==
    ListedBoth =>
        LET list == out[1].list
            Recs(i) == {n \in 1..Len(list) : list[n].id = i}
        IN  \A i \in YieldedIds("user") \cup YieldedIds("system")
                        \cup {list[n].id : n \in 1..Len(list)} :
               /\ Cardinality(Recs(i)) = 1
               /\ \A n \in Recs(i) :
                     IF Yields("user", i) # {}
                     THEN list[n] \in Yields("user", i)
                     ELSE list[n] \in Yields("system", i)

\* Both scopes yield the same id with different data, and both were listed.
C1_Witness ==
    /\ ListedBoth
    /\ \E i \in YieldedIds("user") \cap YieldedIds("system") :
          \E u \in Yields("user", i), s \in Yields("system", i) : u.name # s.name

\* C6: a requested scope whose index file is absent is loaded successfully
\* with zero entries, the listing succeeds, and the result is exactly the
\* entries of the other scope (none if that one was not requested).
C6_AbsentIndexIsEmptyScope ==
    \A s \in Scopes :
        (Requested(s) /\ index[s].kind = "absent") =>
            /\ ret = "Ok"
            /\ s \notin out[1].returnedNone
            /\ IF Requested(OtherScope(s))
               THEN ExactlyScope(out[1].list, OtherScope(s))
               ELSE out[1].list = <<>>

\* One requested scope has no index file, the other one yields servers.
C6_Witness ==
    \E s \in Scopes :
        /\ Requested(s) /\ Requested(OtherScope(s))
        /\ index[s].kind = "absent"
        /\ YieldedIds(OtherScope(s)) # {}
        /\ Len(out[1].list) > 0

\* C7: with one scope's index present but unparsable, listing both scopes
\* returns exactly what the other scope alone yields, in either direction.
C7_CorruptIndexOtherScopeListed ==
    \A s \in Scopes :
        (ListedBoth /\ index[s].kind = "corrupt") =>
            ExactlyScope(out[1].list, OtherScope(s))

\* The user index is unparsable, the system scope yields servers.
C7_Witness ==
    /\ ListedBoth
    /\ index["user"].kind = "corrupt"
    /\ YieldedIds("system") # {}
    /\ Len(out[1].list) > 0

\* C8: every index entry of a requested scope whose manifest is readable is
\* returned, under its scope unless a user-scope record shadows it, whatever
\* the other entries of that scope are.
C8_BadEntrySkippedAlone ==
    \A s \in Scopes :
        Requested(s) =>
            \A k \in LoadableKeys(s) :
                \E n \in 1..Len(out[1].list) :
                    /\ out[1].list[n].id = ListedId(s, k)
                    /\ (s = "user" \/ ~call.user) => out[1].list[n].scope = s

\* A listed scope holds an entry whose manifest is unparsable next to an
\* entry that loads.
C8_Witness ==
    \E s \in Scopes :
        /\ Requested(s)
        /\ index[s].kind = "json"
        /\ LoadableKeys(s) # {}
        /\ \E k \in DOMAIN index[s].servers : EntryManifest(s, k).kind = "corrupt"

\* The entry of scope s that a lookup of id hits, if any.
Hit(s, id) ==
    /\ index[s].kind = "json"
    /\ id \in DOMAIN index[s].servers
    /\ ManifestParses(EntryManifest(s, id))

\* The scope a user-before-system lookup of id resolves.
FirstHit(id) ==
    IF Hit("user", id) THEN "user" ELSE IF Hit("system", id) THEN "system" ELSE "none"

\* C9: get_server and get_manifest_path return the user-scope hit when there
\* is one, the system-scope hit only when there is none, and nothing when
\* neither scope has one; for one id and state they resolve the same scope.
C9_UserScopeFirst ==
    /\ call.op = "get_server" =>
          IF FirstHit(call.id) = "none" THEN out = None
          ELSE out = Some([manifest |-> TypedManifest(EntryManifest(FirstHit(call.id), call.id)),
                           scope |-> FirstHit(call.id)])
    /\ call.op = "get_manifest_path" =>
          IF FirstHit(call.id) = "none" THEN out = None
          ELSE out = Some(index[FirstHit(call.id)].servers[call.id].location)
    /\ \A id \in QueryIds :
          IF GetServerOf(id) = None THEN GetManifestPathOf(id) = None
          ELSE /\ GetManifestPathOf(id) # None
               /\ GetManifestPathOf(id)[1]
                     = index[GetServerOf(id)[1].scope].servers[id].location

\* get_server was asked for an id that both scopes hold with different data.
C9_Witness ==
    /\ call.op = "get_server"
    /\ Hit("user", call.id) /\ Hit("system", call.id)
    /\ EntryManifest("user", call.id) # EntryManifest("system", call.id)
    /\ out # None

\* ---------------------------------------------- mutation engine: properties

IndexMutations == {"install", "connect", "uninstall"}
ManifestMutations == {"install", "connect", "set_config_value"}

IsWrite(e, file) == e.op = "write" /\ e.file = file

TempWrite(scope) == Fx("write", "temp", scope, None, "self")

\* C2: install, connect and uninstall write the real index path themselves
\* exactly when the target scope is user or the process is elevated;
\* otherwise the content reaches it only by the elevated copy of the
\* temporary file written just before.  A successful call wrote the index.
C2_IndexCommitPath ==
    call.op \in IndexMutations =>
        /\ \A n \in 1..Len(fx) :
              IsWrite(fx[n], "index") =>
                 /\ fx[n].by = "self" <=> (call.scope = "user" \/ call.elev)
                 /\ fx[n].by # "self" =>
                       /\ fx[n].by = "pkexec"
                       /\ n > 1
                       /\ fx[n - 1] = TempWrite(call.scope)
        /\ ret = "Ok" => \E n \in 1..Len(fx) : IsWrite(fx[n], "index")

\* An uninstall from the system scope by a process that is not elevated
\* committed its index through the elevated copy.
C2_Witness ==
    /\ call.op = "uninstall" /\ call.scope = "system" /\ ~call.elev
    /\ ret = "Ok"
    /\ \E n \in 1..Len(fx) : IsWrite(fx[n], "index") /\ fx[n].by = "pkexec"

\* C3: once an index mutation has written the temporary file, no temporary
\* index file remains when it returns, whatever the elevated copy did.
C3_TempAlwaysDeleted ==
    (/\ call.op \in IndexMutations
     /\ \E n \in 1..Len(fx) : IsWrite(fx[n], "temp"))
        => temp = None

\* C4: an index mutation whose elevated copy exits non-zero returns a
\* failure and leaves both index files as they were before the call.
C4_FailedCopyFailsMutation ==
    [][(/\ call'.op \in IndexMutations
        /\ \E n \in 1..Len(fx') : fx'[n].op = "cp_failed")
          => (ret' # "Ok" /\ index' = index)]_vars

\* The elevated copy failed over a system index that lists a server.
C4_Witness ==
    /\ call.op \in IndexMutations
    /\ call.scope = "system" /\ ~call.elev
    /\ \E n \in 1..Len(fx) : fx[n].op = "cp_failed"
    /\ index["system"].kind = "json"
    /\ DOMAIN index["system"].servers # {}

C10_InstallPostcondition ==
    (call.op = "install" /\ ret = "Ok") =>
        LET d == call.server.v
            dir == InstallDirOf(call.scope, call.id)
            path == ManifestPathOf(dir)
        IN  /\ dir \in dirs
            /\ path \in DOMAIN manifest
            /\ manifest[path] =
                  [kind |-> "json", id |-> d.id, name |-> d.name,
                   summary |-> d.summary, version |-> d.version,
                   transports |-> d.transports,
                   config |-> IF d.config = None THEN Some(EmptyConfig)
                              ELSE d.config,
                   extra |-> d.extra,
                   installDir |-> Some(dir)]
            /\ index[call.scope].kind = "json"
            /\ call.id \in DOMAIN index[call.scope].servers
            /\ index[call.scope].servers[call.id].location = path

\* A descriptor without config was installed into the system scope by a
\* process that is not elevated.
C10_Witness ==
    /\ call.op = "install" /\ ret = "Ok"
    /\ call.scope = "system" /\ ~call.elev
    /\ call.server.v.config = None


\* ------------------------------------------------- call sequences: properties

\* Every call of the run so far was a mutating call that succeeded, and no
\* file was edited from outside: the state grew from the empty scopes.
AllSucceeded == Len(log) = clock /\ edits = 0

\* The run is install(id) then uninstall(id), both successful.
InstalledThenUninstalled ==
    /\ AllSucceeded
    /\ Len(log) = 2
    /\ log[1].op = "install"
    /\ log[2].op = "uninstall"
    /\ log[2].id = log[1].id

\* C11: from empty scopes, after install(id) succeeds and uninstall(id) then
\* succeeds, the install directory of id is gone, the scope's index has no
\* entry for id, and list_servers returns zero servers.
C11_InstallUninstallRoundTrip ==
    InstalledThenUninstalled =>
        /\ InstallDirOf(log[1].scope, log[1].id) \notin dirs
        /\ ManifestPathOf(InstallDirOf(log[1].scope, log[1].id)) \notin DOMAIN manifest
        /\ index[log[1].scope].kind = "json"
        /\ log[1].id \notin DOMAIN index[log[1].scope].servers
        /\ \A orderU \in Orders(KeysOf("user")), orderS \in Orders(KeysOf("system")) :
              ListServersOf(TRUE, TRUE, orderU, orderS).list = <<>>

\* A server installed into the system scope has been uninstalled again.
C11_Witness ==
    /\ InstalledThenUninstalled
    /\ log[1].scope = "system"
    /\ call.op = "uninstall" /\ ret = "Ok"


\* C12: an uninstall of an id that the user-then-system lookup does not
\* resolve returns the not-found error, issues no file operation, and leaves
\* every directory, manifest, index and temporary file as it was.
C12_UninstallUnknownTouchesNothing ==
    [][(call'.op = "uninstall" /\ GetUninstallInfoOf(call'.id) = None)
          => /\ ret' = "ServerNotFound"
             /\ fx' = <<>>
             /\ UNCHANGED <<index, manifest, dirs, temp>>]_vars

\* An uninstall did not resolve its id while an install directory of that
\* id, left by a failed install, was on disk.
C12_Witness ==
    /\ call.op = "uninstall" /\ call.scope = "none"
    /\ ret = "ServerNotFound"
    /\ \E s \in Scopes : InstallDirOf(s, call.id) \in dirs


\* The positions of log at which connect generated an id in scope s.
GeneratedAt(s) ==
    {n \in 1..Len(log) : log[n].generated /\ log[n].scope = s}

GeneratedSuffixes == 1..MaxCalls

C14_ConfigSetGetRoundTrip ==
    /\ []((call.op = "set_config_value" /\ ret = "Ok")
             => ConfigGetOf(call.id, call.key) = Ok(call.value))
    /\ [][(call'.op = "set_config_value" /\ ret' = "Ok")
          => LET path == GetManifestPathOf(call'.id)[1]
                 before == manifest[path]
                 after == manifest'[path]
                 old == UnwrapOr(before.config, EmptyConfig)
             IN  /\ DOMAIN after.config[1] = DOMAIN old \cup {call'.key}
                 /\ \A k \in DOMAIN old \ {call'.key} : after.config[1][k] = old[k]
                 /\ after.config[1][call'.key] = call'.value
                 /\ [after EXCEPT !.config = before.config] = before
                 /\ DOMAIN manifest' = DOMAIN manifest
                 /\ \A p \in DOMAIN manifest \ {path} : manifest'[p] = manifest[p]
                 /\ UNCHANGED <<index, dirs, temp>>]_vars

\* A new key was set in a manifest that holds another config key and a field
\* the typed Manifest does not know.
C14_Witness ==
    /\ call.op = "set_config_value" /\ ret = "Ok"
    /\ LET m == manifest[GetManifestPathOf(call.id)[1]]
       IN  /\ m.extra # None
           /\ DOMAIN m.config[1] \ {call.key} # {}


\* C15: after any series of install, connect, config-set and uninstall calls
\* that all succeeded, starting from the empty scopes, every key of each
\* scope's index has at its recorded location a manifest file that can be
\* read and parsed as a Manifest.
C15_IndexedManifestsReadable ==
    AllSucceeded =>
        \A s \in Scopes :
            \A k \in KeysOf(s) : ManifestParses(EntryManifest(s, k))


\* The failures of the index update, the last step of a mutation.
IndexStepFailures == {"ParseIndex", "ReadIndex", "WriteIndex", "IndexError"}

\* The failures that come before the install directory is touched.
FirstStepFailures ==
    {"NoSources", "ServerNotFound", "InvalidUrl", "CreateDir", "RmFailed"}

NoTransports(c) ==
    /\ c.op = "install"
    /\ c.server.ok
    /\ \/ c.server.v.transports = None
       \/ c.server.v.transports[1] = <<>>

\* C17: an install whose descriptor has a missing or empty transports list
\* fails with the invalid-descriptor error and leaves the install
\* directories, the manifests and the indexes as they were before the call.
C17_ValidatedBeforeDirectory ==
    [][NoTransports(call')
          => /\ ret' = "InvalidRegistry"
             /\ UNCHANGED <<dirs, manifest, index>>]_vars


\* C18: after a successful install or connect that registers a server under
\* the index key k, the id field of the manifest written for k equals k.
C18_ManifestIdIsIndexKey ==
    (call.op \in {"install", "connect"} /\ ret = "Ok") =>
        LET k == IF call.op = "connect" THEN out[1] ELSE call.id
        IN  /\ k \in KeysOf(call.scope)
            /\ EntryManifest(call.scope, k).id = Some(k)


C30_ListStrictlyAscending ==
    call.op = "list_servers" =>
        LET list == out[1].list
        IN  \A n, m \in 1..Len(list) : n < m => StrLess(list[n].id, list[m].id)

\* A listing of both scopes whose first record is a system-scope one and
\* whose second is a user-scope one: the order is not the order of loading.
C30_Witness ==
    /\ ListedBoth
    /\ Len(out[1].list) >= 2
    /\ out[1].list[1].scope = "system"
    /\ out[1].list[2].scope = "user"

\* The numeric suffixes of the connected-server keys of the index of scope s.
SuffixesIn(s) == {SuffixOf(k)[1] : k \in {j \in KeysOf(s) : SuffixOf(j) # None}}

\* The largest member of a set of u32 values, 0 for the empty set.
MaxOf(S) ==
    IF S = {} THEN U32(0) ELSE CHOOSE n \in S : \A m \in S : ~U32Less(n, m)

\* C29: the id connect generates for scope S carries the suffix max+1 over
\* the suffixes of the prefixed keys of S's index alone (1 when it has none),
\* whatever the other scope's index holds; the same suffix can therefore be
\* held in both scopes.
C29_GeneratorIsScopeLocal ==
    [][(call'.op = "connect" /\ ret' = "Ok" /\ log' # log
           /\ log'[Len(log')].generated)
          => \E n \in GeneratedSuffixes :
                /\ MaxOf(SuffixesIn(call'.scope)) = U32(n - 1)
                /\ out' = Some(<<"P">> \o FormatU32(U32(n)))]_vars

\* connect generated for one scope the id the other scope's index holds, and
\* both indexes now hold it.
C29_Witness ==
    /\ call.op = "connect" /\ ret = "Ok" /\ log[Len(log)].generated
    /\ out[1] \in KeysOf(call.scope) \cap KeysOf(OtherScope(call.scope))
    /\ \E n \in GeneratedAt(OtherScope(call.scope)) : log[n].id = out[1]

\* connect ran in raw mode and wrote its manifest.
RawConnected == call.op = "connect" /\ call.fetched = None /\ ret = "Ok"

\* The manifest file a successful connect wrote.
ConnectedManifest == manifest[ManifestPathOf(InstallDirOf(call.scope, out[1]))]

\* C28 as stated: raw mode writes one websocket transport whose wsUrl is the
\* input URL when the input starts with ws:// or wss://, and one sse
\* transport whose url is the input URL for any other input.
C28_TransportFromInputUrl ==
    RawConnected =>
        ConnectedManifest.transports =
            Some(<<Transport(IF IsWebSocketUrl(call.url) THEN "websocket"
                             ELSE "sse", Some(call.url))>>)

\* C28 as the code has it: raw mode looks at the input URL with leading and
\* trailing whitespace removed; it writes one websocket transport when that
\* starts with ws:// or wss:// and one sse transport otherwise, and the
\* transport's wsUrl or url is the trimmed URL.
C28_TransportFromTrimmedUrl ==
    RawConnected =>
        /\ Len(ConnectedManifest.transports[1]) = 1
        /\ LET t == ConnectedManifest.transports[1][1]
           IN  /\ t.arg = Some(Trim(call.url))
               /\ t.type = "websocket" <=> IsWebSocketUrl(Trim(call.url))
               /\ t.type = "sse" <=> ~IsWebSocketUrl(Trim(call.url))

\* Raw mode was given a websocket URL with a leading blank.
C28_Witness ==
    /\ RawConnected
    /\ call.url # Trim(call.url)
    /\ IsWebSocketUrl(Trim(call.url))

\* The errors uninstall reports for its index update.
UninstallIndexErrors == {"ReadIndex", "ParseIndex", "SerializeIndex", "WriteIndex"}

\* C27: an uninstall that resolves its id reports the step that failed and
\* undoes nothing.  The removal error leaves directories, manifests and
\* indexes as they were; an index error leaves the install directory removed
\* and both indexes as they were; success means the directory is gone and
\* the key is out of the index.  No other outcome exists.
C27_UninstallReportsFailedStep ==
    [][(call'.op = "uninstall" /\ GetUninstallInfoOf(call'.id) # None)
          => LET info == GetUninstallInfoOf(call'.id)[1]
                 dir == info.install_dir
             IN  /\ ret' \in {"Ok", "RmFailed"} \cup UninstallIndexErrors
                 /\ ret' = "RmFailed"
                       => /\ UNCHANGED <<index, manifest, dirs>>
                          /\ \A n \in 1..Len(fx') : fx'[n].file # "index"
                 /\ ret' \in UninstallIndexErrors
                       => /\ dir \notin dirs'
                          /\ ManifestPathOf(dir) \notin DOMAIN manifest'
                          /\ index' = index
                 /\ ret' = "Ok"
                       => /\ dir \notin dirs'
                          /\ call'.id \notin DOMAIN index'[info.scope].servers
                          /\ \E n \in 1..Len(fx') : fx'[n].op = "remove_dir"
                          /\ \E n \in 1..Len(fx') : IsWrite(fx'[n], "index")]_vars

\* An uninstall removed the install directory and then failed to write the
\* index: the key is still in the index, the directory is gone.
C27_Witness ==
    /\ call.op = "uninstall" /\ ret = "WriteIndex"
    /\ call.id \in KeysOf(call.scope)
    /\ InstallDirOf(call.scope, call.id) \notin dirs

\* The last call was an uninstall that removed the install directory and then
\* failed to write the index.
UninstallLeftStaleEntry ==
    /\ call.op = "uninstall" /\ ret \in UninstallIndexErrors
    /\ call.id \in KeysOf(call.scope)
    /\ InstallDirOf(call.scope, call.id) \notin dirs

\* Running uninstall again for the same id, with no failure of any step,
\* succeeds and leaves the scope's index without the key.
RetriedUninstallRecovers ==
    LET o == UninstallOf(call.id, call.elev, "none", clock + 1)
    IN  /\ o.ret = "Ok"
        /\ call.id \notin DOMAIN o.index[call.scope].servers

\* The last call was an install that wrote the manifest and then failed to
\* write the index.
InstallLeftNoEntry ==
    /\ call.op = "install" /\ ret = "WriteIndex"
    /\ ManifestPathOf(InstallDirOf(call.scope, call.id)) \in DOMAIN manifest

\* Running the same install again, with no failure of any step, succeeds and
\* leaves the key in the scope's index, located at the manifest file written.
RetriedInstallRecovers ==
    LET o == InstallOf(call.id, call.scope, call.elev, call.server, "none",
                       clock + 1)
        path == ManifestPathOf(InstallDirOf(call.scope, call.id))
    IN  /\ o.ret = "Ok"
        /\ call.id \in DOMAIN o.index[call.scope].servers
        /\ o.index[call.scope].servers[call.id].location = path
        /\ path \in DOMAIN o.manifest
        /\ o.manifest[path] = manifest[path]

\* C25: a partial state is recovered by running the same operation again
\* once the cause of the failure is gone: the uninstall that left a stale
\* index entry succeeds and removes it, the install that left a manifest
\* without an index entry succeeds and leaves index and manifest consistent.
C25_RetryRecovers ==
    /\ UninstallLeftStaleEntry => RetriedUninstallRecovers
    /\ InstallLeftNoEntry => RetriedInstallRecovers

\* A registry scan ran with a working HTTP client over at least one source.
Scanned ==
    /\ call.op = "fetch_server_from_registry"
    /\ call.fault = "none"
    /\ ListSourcesOf(TRUE, TRUE) # <<>>

\* The URLs of the merged source list, user sources before system sources.
MergedUrls ==
    LET list == ListSourcesOf(TRUE, TRUE) IN [n \in 1..Len(list) |-> list[n].url]

\* The positions of the merged source list whose registry has the id asked for.
Matches ==
    {n \in 1..Len(MergedUrls) :
        LET r == call.responses[MergedUrls[n]]
        IN  r.kind = "registry" /\ FindServer(r.servers, call.id) # None}

\* The source at position n could not be fetched or answered non-2xx.
Unfetched(n) == call.responses[MergedUrls[n]].kind \in {"unreachable", "status"}

\* C21: the scan returns the descriptor of the earliest source, user sources
\* first, whose registry has the id, whatever sources before it could not be
\* fetched or answered non-2xx; a source that could not be fetched or
\* answered non-2xx is followed by a GET of the next source; the not-found
\* failure is returned only after a GET of every source, none with the id.
C21_ScanPassesFailedSources ==
    Scanned =>
        /\ \A n \in Matches :
              (\A m \in 1..(n - 1) : Unfetched(m))
                 => out[1] = Ok(FindServer(call.responses[MergedUrls[n]].servers,
                                           call.id)[1])
        /\ \A n \in 1..(Len(MergedUrls) - 1) :
              (\A m \in 1..n : Unfetched(m)) => Len(fx) > n
        /\ out[1] = Err("ServerNotFound")
              => Len(fx) = Len(MergedUrls) /\ Matches = {}

\* C22 as stated: no registry URL is fetched twice in one scan.
C22_NoUrlFetchedTwice ==
    call.op = "fetch_server_from_registry" =>
        \A n, m \in 1..Len(fx) : fx[n].id = fx[m].id => n = m

\* C22 as the code has it: the merged list is the URLs of the user file in
\* file order followed by those of the system file, every occurrence kept;
\* the scan issues its GETs along that list, one per occurrence, up to the
\* source that ends it, and a scan that ends with not-found has fetched
\* every occurrence.
C22_EveryOccurrenceFetched ==
    /\ call.op = "list_sources" /\ call.user /\ call.system
          => /\ Len(out[1]) = Len(ReadSourcesFile("user")) + Len(ReadSourcesFile("system"))
             /\ \A n \in 1..Len(out[1]) :
                   out[1][n] = IF n <= Len(ReadSourcesFile("user"))
                               THEN [url |-> ReadSourcesFile("user")[n], scope |-> "user"]
                               ELSE [url |-> ReadSourcesFile("system")[n - Len(ReadSourcesFile("user"))],
                                     scope |-> "system"]
    /\ call.op = "fetch_server_from_registry"
          => LET urls == ReadSourcesFile("user") \o ReadSourcesFile("system")
             IN  /\ Len(fx) <= Len(urls)
                 /\ \A n \in 1..Len(fx) : fx[n].id = <<urls[n]>>
                 /\ ret = "ServerNotFound" => Len(fx) = Len(urls)

\* A scan fetched the same URL for the user scope and again for the system
\* scope.
C22_Witness ==
    /\ call.op = "fetch_server_from_registry"
    /\ \E n, m \in 1..Len(fx) :
          /\ n < m
          /\ fx[n].id = fx[m].id
          /\ fx[n].scope = "user" /\ fx[m].scope = "system"

\* A non-root process ran one of the commands that re-execute up front, and
\* the command's target was the system scope.
SystemTargetUnelevated ==
    /\ call.op = "cmd"
    /\ call.cmd \in {"install", "uninstall", "sources_add", "sources_remove"}
    /\ call.target = "system"
    /\ ~call.elev

\* The operations that create, write or delete something.
MutatingOps == {"create_dir", "write", "remove", "remove_dir", "cp_failed"}

\* C23: a non-root process whose command targets the system scope (install
\* into system scope, sources add/remove --system, uninstall of a server
\* resolved in system scope) hands the command over to pkexec before any
\* mutation: it creates, writes and deletes nothing itself, every mutation
\* is the child's, and when pkexec does not run the child every file and
\* directory is as before.
C23_ReExecBeforeMutation ==
    /\ [](SystemTargetUnelevated
             => /\ out[1].reexec
                /\ \A n \in 1..Len(fx) : fx[n].op \notin MutatingOps)
    /\ [][(SystemTargetUnelevated' /\ out'[1].childFx = <<>>)
             => UNCHANGED <<index, manifest, dirs, temp, sources>>]_vars

\* A non-root `install --system` was handed over to pkexec and the child
\* installed the server into the system scope.
C23_Witness ==
    /\ SystemTargetUnelevated
    /\ call.cmd = "install"
    /\ ret = "Ok"
    /\ InstallDirOf("system", call.id) \in dirs
    /\ \E n \in 1..Len(out[1].childFx) : out[1].childFx[n].op = "create_dir"

\* C24: config-set re-executes under pkexec exactly when set_config_value
\* failed at the manifest write, the process is not root and the manifest is
\* under the system install directory; a failed write of a user-scope
\* manifest, or by a root process, is reported: no re-execution, exit code
\* not 0, as for every other failure of set_config_value.
C24_ConfigSetEscalatesSystemWrite ==
    (call.op = "cmd" /\ call.cmd = "config_set") =>
        /\ out[1].first = "WriteFailed"
              <=> (call.fault = "write_manifest" /\ call.target # "none"
                     /\ ReadManifest(GetManifestPathOf(call.id)[1]).kind = "json")
        /\ out[1].reexec
              <=> (out[1].first = "WriteFailed" /\ ~call.elev
                     /\ call.target = "system")
        /\ (out[1].first # "Ok" /\ ~out[1].reexec)
              => (out[1].exit = 1 /\ ret = out[1].first)

\* A non-root config-set failed to write a system-scope manifest and the
\* pkexec child wrote it.
C24_Witness ==
    /\ call.op = "cmd" /\ call.cmd = "config_set"
    /\ out[1].reexec /\ ret = "Ok"
    /\ out[1].childFx # <<>>

\* Both processes have finished an install of a different id into scope s,
\* and both returned Ok.
BothInstalled(s) ==
    /\ \A p \in Procs : procs[p].pc = "done" /\ procs[p].ret = "Ok"
                           /\ procs[p].scope = s
    /\ procs[1].id # procs[2].id

\* C26: two installs of different ids into one scope that both return Ok
\* leave both ids in the index whenever one read the index after the other
\* had written it, as in every sequential run; when one wrote the index
\* between the read and the write of the other, the index holds the id of
\* the later writer and not the id of the earlier one.
C26_LostUpdateOnlyWhenInterleaved ==
    \A s \in Scopes :
        BothInstalled(s) =>
            \A p, q \in Procs :
                p # q =>
                    /\ procs[q].wroteAt < procs[p].began
                          => procs[q].wroteAt < procs[p].readAt
                    /\ procs[q].wroteAt < procs[p].readAt
                          => {procs[p].id, procs[q].id} \subseteq KeysOf(s)
                    /\ (procs[p].readAt < procs[q].wroteAt
                          /\ procs[q].wroteAt < procs[p].wroteAt)
                          => (procs[p].id \in KeysOf(s) /\ procs[q].id \notin KeysOf(s))

\* Both installs returned Ok and the index holds only one of the two ids.
C26_Witness ==
    \E s \in Scopes :
        /\ BothInstalled(s)
        /\ Len(log) = 2
        /\ \E p \in Procs : procs[p].id \notin KeysOf(s)


\* ------------------------------------------- discovery agreement: properties

\* C31: list_servers over both scopes and get_server agree: every record
\* (id, scope) of the list is resolved by get_server(id) to a manifest of the
\* same scope, and every id get_server resolves is the id of a listed record,
\* also when a manifest's own id differs from its index key.
C31_ListAndLookupAgree ==
    ListedBoth =>
        LET list == out[1].list
        IN  /\ \A n \in 1..Len(list) :
                  /\ GetServerOf(list[n].id) # None
                  /\ GetServerOf(list[n].id)[1].scope = list[n].scope
            /\ \A i \in QueryIds :
                  GetServerOf(i) # None =>
                      \E n \in 1..Len(list) : list[n].id = i


\* ------------------------------------------------------ reinstall: properties

\* A descriptor install accepts: its first transport is of a known type.
Installable(d) ==
    /\ d.transports # None
    /\ d.transports[1] # <<>>
    /\ d.transports[1][1].type \in KnownTransports

\* Scope s already has an index entry for id i.
Installed(s, i) == IndexParses(index[s]) /\ i \in DOMAIN index[s].servers

\* C36: install of an id that the index of the same scope already holds
\* succeeds with an installable descriptor when no external step fails; the
\* index keeps its set of keys, its other entries and its other fields, the
\* entry of the id points at <scope install dir>/<id>/manifest.json, and only
\* the updated timestamp of that index and the manifest of the id may differ.
C36_ReinstallKeepsIndex ==
    \A id \in NamedIds, scope \in Scopes, elev \in BOOLEAN, d \in Descriptors :
        (Installed(scope, id) /\ Installable(d)) =>
            LET o == InstallOf(id, scope, elev, Ok(d), "none", clock + 1)
                path == ManifestPathOf(InstallDirOf(scope, id))
            IN  /\ o.ret = "Ok"
                /\ o.index = [index EXCEPT
                                 ![scope].servers[id] = [location |-> path],
                                 ![scope].updated = Some(clock + 1)]
                /\ DOMAIN o.index[scope].servers = DOMAIN index[scope].servers
                /\ \A p \in DOMAIN manifest \ {path} :
                      p \in DOMAIN o.manifest /\ o.manifest[p] = manifest[p]
                /\ DOMAIN o.manifest = DOMAIN manifest \cup {path}

\* The second of two successful installs of one id into one scope, from an
\* empty scope, has run.
C36_Witness ==
    /\ AllSucceeded
    /\ Len(log) = 2
    /\ log[1].op = "install"
    /\ log[2].op = "install"
    /\ log[2].id = log[1].id
    /\ log[2].scope = log[1].scope
    /\ call.op = "install"
    /\ DOMAIN index[call.scope].servers = {call.id}
    /\ index[call.scope].updated = Some(2)


\* ------------------------------------------------ scope isolation: properties

\* The manifests and install directories under the install directory of s.
ManifestsUnder(s, man) == [p \in {q \in DOMAIN man : q.scope = s} |-> man[p]]
DirsUnder(s, ds) == {d \in ds : d.scope = s}

\* The index, the manifests and the directories of scope s are as before.
ScopeUntouched(s) ==
    /\ index'[s] = index[s]
    /\ ManifestsUnder(s, manifest') = ManifestsUnder(s, manifest)
    /\ DirsUnder(s, dirs') = DirsUnder(s, dirs)

\* C33: install and connect with target scope S touch only the install
\* directory and the index of S; uninstall and set_config_value touch only
\* files of the scope their id was resolved in, and nothing when it was not
\* resolved.  The other scope's index, manifests and directories are as
\* before, and set_config_value changes no index.
C33_ScopeIsolation ==
    [][call'.op \in IndexMutations \cup ManifestMutations =>
          /\ \A n \in 1..Len(fx') : fx'[n].scope = call'.scope
          /\ \A s \in Scopes : s # call'.scope => ScopeUntouched(s)
          /\ call'.op = "set_config_value" => index' = index]_vars

\* A successful install into the system scope ran while the user scope held
\* a server, or the reverse.
C33_Witness ==
    /\ AllSucceeded
    /\ Len(log) = 2
    /\ log[2].scope # log[1].scope
    /\ call.op = "install"
    /\ \A s \in Scopes : IndexParses(index[s]) /\ DOMAIN index[s].servers # {}


\* ------------------------------------------------ generated ids: properties

\* C34: a successful connect without id override registers under an id that
\* was no key of the target scope's index when it was called, whatever the
\* prefixed keys there are: suffixes up to the largest 32-bit value, leading
\* zeros, a sign.
C34_GeneratedIdIsFresh ==
    [][(call'.op = "connect" /\ call'.ov.id = None /\ ret' = "Ok")
          => out'[1] \notin KeysOf(call'.scope)]_vars

\* The same, for the indexes whose largest suffix is below u32::MAX.
GeneratedIdIsFreshBelowMax ==
    [][(call'.op = "connect" /\ call'.ov.id = None /\ ret' = "Ok"
           /\ ~Overflows(call'.scope))
          => out'[1] \notin KeysOf(call'.scope)]_vars


\* -------------------------------------------- failed connect: properties

\* C35: a connect that returns an error leaves the manifest of every server
\* that existed as it was; when the target scope's index does not parse (the
\* generator fails and the fallback id is taken), it creates and overwrites
\* no manifest file at all before it fails.
C35_FailedConnectKeepsManifests ==
    [][(call'.op = "connect" /\ ret' # "Ok")
          => /\ \A p \in DOMAIN manifest :
                   p \in DOMAIN manifest' /\ manifest'[p] = manifest[p]
             /\ index[call'.scope].kind = "corrupt" => manifest' = manifest]_vars


\* ------------------------------------------------ sources file: properties

\* The URLs list_sources reads from a sources file.
ListedIn(file) == IF file.kind = "text" THEN UrlsOf(file.lines) ELSE <<>>

\* The lines of a sources file that are not blank: its URL and comment lines.
RECURSIVE NonBlank(_)
NonBlank(lines) ==
    IF lines = <<>> THEN <<>>
    ELSE (IF Trim(Head(lines)) = "" THEN <<>> ELSE <<Head(lines)>>)
            \o NonBlank(Tail(lines))

KeptLines(file) == IF file.kind = "text" THEN NonBlank(file.lines) ELSE <<>>

\* add_source was called with a url that is non-empty when trimmed and was
\* not listed in the scope.
AddsUnlisted ==
    /\ call'.op = "add_source"
    /\ Trim(call'.url) # ""
    /\ ~InSeq(Trim(call'.url), ReadSourcesFile(call'.scope))

\* The file of the call's scope is the one before with the url appended: the
\* list is the previous list followed by the url, and the URL and comment
\* lines the file had are kept in order.
Appended ==
    LET s == call'.scope
        u == Trim(call'.url)
    IN  /\ ListedIn(sources'[s]) = ListedIn(sources[s]) \o <<u>>
        /\ KeptLines(sources'[s]) = KeptLines(sources[s]) \o <<u>>

\* C37: add_source appends.  For every url that is non-empty when trimmed and
\* is not listed in the scope, add_source succeeds unless creating the
\* directory or writing the file fails, list_sources of the scope then
\* returns the previous list followed by the url, and the URL and comment
\* lines the file had are kept in order.
C37_AddAppends ==
    [][AddsUnlisted => /\ ret' \in {"Ok", "CreateDir", "WriteFailed"}
                       /\ ret' = "Ok" => Appended]_vars

\* The same for the urls that do not start with '#' and the files that can
\* be read.
AddAppendsListable ==
    [][(AddsUnlisted /\ Trim(call'.url) # "#c"
           /\ sources[call'.scope].kind # "binary")
          => /\ ret' \in {"Ok", "CreateDir", "WriteFailed"}
             /\ ret' = "Ok" => Appended]_vars


\* No URL is listed twice in the sources file of scope s.
ListedOnce(s) ==
    \A n, m \in 1..Len(ReadSourcesFile(s)) :
        ReadSourcesFile(s)[n] = ReadSourcesFile(s)[m] => n = m

\* add_source was called with a url the scope lists.
AddsListed ==
    /\ call'.op = "add_source"
    /\ InSeq(Trim(call'.url), ReadSourcesFile(call'.scope))

\* C38: add_source of a url the scope already lists fails with AlreadyExists
\* (with CreateDir when the directory cannot be created) and leaves the
\* sources files as they were; a url the other scope lists and this one does
\* not is not refused as existing; and in every run of add_source and
\* remove_source from missing files no scope lists a URL twice.
C38_NoDuplicateSources ==
    /\ [](edits = 0 => \A s \in Scopes : ListedOnce(s))
    /\ [][/\ AddsListed => /\ ret' \in {"AlreadyExists", "CreateDir"}
                           /\ sources' = sources
          /\ AddsUnlisted => ret' # "AlreadyExists"]_vars

\* add_source refused a URL its scope lists, and the other scope, to which
\* the URL was added as well, lists it too.
C38_Witness ==
    /\ call.op = "add_source"
    /\ ret = "AlreadyExists"
    /\ edits = 0
    /\ \A s \in Scopes : InSeq(Trim(call.url), ReadSourcesFile(s))


\* The members of q that are not the url u when trimmed, in order.
Except(q, u) == SelectSeq(q, LAMBDA l : Trim(l) # u)

\* remove_source was called.
Removes == call'.op = "remove_source"

\* C39: remove_source of an empty url fails with InvalidUrl, of a url in a
\* file that is missing or unreadable with ReadFailed, of a url the file
\* does not list with NotFound, and each leaves the sources files as they
\* were.  Of a listed url it fails only when the write fails; when it
\* succeeds every line equal to the url is gone, the other URL lines and the
\* comment lines are kept in order, and the other scope's file is as before.
\* A successful remove_source that follows a successful add_source of the
\* same url to the same scope leaves the list as it was before the add.
C39_RemoveSource ==
    [][Removes =>
          LET s == call'.scope
              u == Trim(call'.url)
          IN  /\ ret' \in {"Ok", "InvalidUrl", "ReadFailed", "NotFound", "WriteFailed"}
              /\ u = "" => ret' = "InvalidUrl"
              /\ (u # "" /\ sources[s].kind # "text") => ret' = "ReadFailed"
              /\ (u # "" /\ sources[s].kind = "text"
                    /\ ~InSeq(u, ReadSourcesFile(s))) => ret' = "NotFound"
              /\ (u # "" /\ InSeq(u, ReadSourcesFile(s)))
                    => ret' \in {"Ok", "WriteFailed"}
              /\ ret' # "Ok" => sources' = sources
              /\ ret' = "Ok" =>
                    /\ sources'[s].kind = "text"
                    /\ KeptLines(sources'[s]) = Except(KeptLines(sources[s]), u)
                    /\ ListedIn(sources'[s]) = Except(ListedIn(sources[s]), u)
                    /\ ~InSeq(u, ListedIn(sources'[s]))
                    /\ sources'[OtherScope(s)] = sources[OtherScope(s)]
              /\ (ret' = "Ok" /\ call.op = "add_source" /\ ret = "Ok"
                    /\ call.scope = s /\ Trim(call.url) = u)
                    => LET list == ListedIn(sources[s])
                       IN  /\ list[Len(list)] = u
                           /\ ListedIn(sources'[s])
                                 = SubSeq(list, 1, Len(list) - 1)]_vars

\* remove_source took a URL out of a hand-edited file that held it twice,
\* once with blanks around it, and left the comment line.
C39_Witness ==
    /\ call.op = "remove_source"
    /\ ret = "Ok"
    /\ call.scope = "user"
    /\ Trim(call.url) = U1
    /\ edits = 1
    /\ sources["user"].kind = "text"
    /\ sources["user"].lines = <<"#c">>


\* ------------------------------------------- staging directory: properties

\* install was called with a descriptor whose first transport is stdio.
StdioInstall ==
    /\ call.op = "install"
    /\ call.server.ok
    /\ call.server.v.transports # None
    /\ call.server.v.transports[1] # <<>>
    /\ call.server.v.transports[1][1].type = "stdio"

\* C40: after install_stdio has returned, with success, with the error of
\* the external fetch, with the error of an invalid source path or with the
\* error of the local copy, the staging directory does not exist.
C40_StagingDiscarded ==
    (StdioInstall /\ ret \in {"Ok", "GitFailed", "InvalidRegistry", "CopyFailed"})
        => ~staging

\* The part for the path that returns Ok.
StagingDiscardedOnSuccess == (StdioInstall /\ ret = "Ok") => ~staging


\* --------------------------------------------------- shadowing: properties

\* Scope s has a loadable server under the index key i.
LoadableIn(s, i) == LoadServerFromScope(s, i) # None

\* get_server(i) returns the manifest of the system scope, and every listing
\* of both scopes holds one record for key i, of the system scope.
ReportsSystem(i) ==
    /\ GetServerOf(i) # None
    /\ GetServerOf(i)[1].scope = "system"
    /\ GetServerOf(i)[1].manifest = LoadServerFromScope("system", i)[1].manifest
    /\ \A orderU \in Orders(KeysOf("user")), orderS \in Orders(KeysOf("system")) :
          LET list == ListServersOf(TRUE, TRUE, orderU, orderS).list
          IN  /\ Cardinality({n \in 1..Len(list) : list[n].id = i}) = 1
              /\ \A n \in 1..Len(list) : list[n].id = i => list[n].scope = "system"

\* Neither get_server nor a listing of both scopes knows the key i.
ReportsNothing(i) ==
    /\ GetServerOf(i) = None
    /\ \A orderU \in Orders(KeysOf("user")), orderS \in Orders(KeysOf("system")) :
          LET list == ListServersOf(TRUE, TRUE, orderU, orderS).list
          IN  \A n \in 1..Len(list) : list[n].id # i

\* The install directory, the manifest and the index entry of i in scope s
\* are gone.
GoneFrom(s, i) ==
    /\ InstallDirOf(s, i) \notin dirs
    /\ ManifestPathOf(InstallDirOf(s, i)) \notin DOMAIN manifest
    /\ i \notin KeysOf(s)
    /\ IndexParses(index[s])

\* C32: with a server loadable under one id in both scopes, a successful
\* uninstall of the id removes the user scope's install directory and index
\* entry and leaves the system scope's index, manifests and directories as
\* they were; get_server and list_servers then report the id in the system
\* scope.  A successful uninstall of the id when only the system scope holds
\* it removes that one too, and the id is then known to neither.
C32_UninstallUnshadows ==
    [][\A i \in NamedIds :
          (call'.op = "uninstall" /\ call'.id = i /\ ret' = "Ok") =>
             /\ (LoadableIn("user", i) /\ LoadableIn("system", i))
                   => /\ GoneFrom("user", i)'
                      /\ ScopeUntouched("system")
                      /\ ReportsSystem(i)'
             /\ (i \notin KeysOf("user") /\ LoadableIn("system", i))
                   => /\ GoneFrom("system", i)'
                      /\ ScopeUntouched("user")
                      /\ ReportsNothing(i)']_vars

\* Two installs of one id, one into each scope, then two uninstalls of it,
\* all successful: nothing of the id is left.
C32_Witness ==
    /\ Len(log) = 4
    /\ log[1].op = "install" /\ log[2].op = "install"
    /\ log[1].scope # log[2].scope
    /\ log[3].op = "uninstall" /\ log[3].scope = "user"
    /\ log[4].op = "uninstall" /\ log[4].scope = "system"
    /\ \A n \in 1..4 : log[n].id = IdA
    /\ call.op = "uninstall"
    /\ dirs = {}
    /\ ReportsNothing(IdA)

====
